---- MODULE Spec2Model ----
(***************************************************************************)
(* The Cabo WebSocket server (server.js, kept in src/unnamed/part_000      *)
(* lines 27-509): the registry `games`, the connection table `clients`     *)
(* and one handler per message type.  A handler is an operator from the    *)
(* state before the message to the state after it plus the messages it     *)
(* sends (field `out`); Node runs a handler to completion, so one handler  *)
(* is one step.  A value never changed by JavaScript's `undefined` is a    *)
(* card 0..51; `undefined`, `null` and an array hole are values of their   *)
(* own.                                                                    *)
(***************************************************************************)
EXTENDS Integers, Sequences, FiniteSets, TLC

(***************************************************************************)
(* Bounds of the explored environment (not program constants).             *)
(***************************************************************************)
\* shuffles tried per deal: the random streams 0..MaxSeed
MaxSeed == 1
\* accepted replace / discard-held requests in one behaviour
MaxResolves == 3
\* START_GAME is only requested for rooms of at most this many players
MaxStartPlayers == 3
\* joins of a lobby that already has MaxStartPlayers players, in one behaviour
MaxCrowd == 5
\* connections opened in one behaviour
MaxConns == 9
\* Math.random() is a multiple of 1 / RandDen
RandDen == 8
\* cards in a hand that is scored on its own, the named hands apart
MaxScored == 2

(***************************************************************************)
(* Program constants.                                                      *)
(***************************************************************************)
NumSuits == 4
NumValues == 13
DeckSize == NumSuits * NumValues
HandSize == 4
MaxPlayers == 8
MinPlayers == 2

\* JavaScript values that are not cards
Null == -1
Undefined == -2
Hole == -3
\* null in a field that holds a player id
NullId == "null"

Cards == 0 .. (DeckSize - 1)
Slots == 0 .. (HandSize - 1)
Conns == 1 .. MaxConns
Codes == {"AAAAAA", "BBBBBB"}
Ids == <<"p1", "p2", "p3", "p4", "p5", "p6", "p7", "p8", "p9">>
Names == <<"ann", "bob", "Bob", "cat", "dan", "eve", "fay", "gus", "hal">>

\* a card object is truthy, null and undefined are falsy
Truthy(v) == v \notin {Null, Undefined}

(***************************************************************************)
(* Cards: card k is suits[k \div 13], values[k % 13], the order in which   *)
(* createDeck pushes them.                                                 *)
(***************************************************************************)
SuitOf(card) == card \div NumValues
ValueOf(card) == card % NumValues

\* the suit symbols by name, and the value strings character by character
suits == <<"spades", "hearts", "diamonds", "clubs">>
values ==
  << <<"A">>, <<"2">>, <<"3">>, <<"4">>, <<"5">>, <<"6">>, <<"7">>, <<"8">>, <<"9">>,
     <<"1", "0">>, <<"J">>, <<"Q">>, <<"K">> >>

CardSuit(card) == suits[SuitOf(card) + 1]
CardValue(card) == values[ValueOf(card) + 1]
IsRedSuit(card) == CardSuit(card) = "hearts" \/ CardSuit(card) = "diamonds"

\* parseInt of a string of decimal digits
DigitChars == <<"0", "1", "2", "3", "4", "5", "6", "7", "8", "9">>
Digit(ch) == (CHOOSE k \in 1 .. Len(DigitChars) : DigitChars[k] = ch) - 1

RECURSIVE parseInt(_)
parseInt(str) ==
  IF str = <<>> THEN 0
  ELSE parseInt(SubSeq(str, 1, Len(str) - 1)) * 10 + Digit(str[Len(str)])

\* Array.prototype.pop: the last element, undefined on an empty array
PopVal(arr) == IF Len(arr) = 0 THEN Undefined ELSE arr[Len(arr)]
PopRest(arr) == IF Len(arr) = 0 THEN arr ELSE SubSeq(arr, 1, Len(arr) - 1)

\* arr[i] for a 0-based index: undefined out of range or at a hole
ReadSlot(arr, i) ==
  IF i + 1 <= Len(arr) /\ arr[i + 1] # Hole THEN arr[i + 1] ELSE Undefined

\* arr[i] = v for a 0-based index: past the end the array grows, with holes
WriteSlot(arr, i, v) ==
  IF i + 1 <= Len(arr)
  THEN [arr EXCEPT ![i + 1] = v]
  ELSE [k \in 1 .. (i + 1) |->
          IF k <= Len(arr) THEN arr[k] ELSE IF k = i + 1 THEN v ELSE Hole]

\* Math.random() of the stream `seed` at loop index i, as a numerator over
\* RandDen
Random(seed, i) == (seed * 5 + i * 3) % RandDen

\* a swap that copies one way only; C23_DeckIsPermutation tells it from
\* SwapAt
SwapAt_OneWay(deck, a, b) == [deck EXCEPT ![a] = deck[b]]

SwapAt(deck, a, b) == [deck EXCEPT ![a] = deck[b], ![b] = deck[a]]

\* the loop from index i down to 1; random[i] is what Math.random() returns
\* in the iteration of index i
RECURSIVE Shuffle(_, _, _)
Shuffle(deck, random, i) ==
  IF i <= 0 THEN deck
  ELSE LET j == (random[i] * (i + 1)) \div RandDen
       IN  Shuffle(SwapAt(deck, i + 1, j + 1), random, i - 1)

UnshuffledDeck == [k \in 1 .. DeckSize |-> k - 1]

\* createDeck when Math.random() returns the sequence `random`
createDeckWith(random) == Shuffle(UnshuffledDeck, random, DeckSize - 1)

\* the outcomes of Math.random() in the stream `seed`
Stream(seed) == [i \in 1 .. (DeckSize - 1) |-> Random(seed, i)]

createDeck(seed) == createDeckWith(Stream(seed))

Seeds == 0 .. MaxSeed

\* the decks createDeck can return, each computed once
ShuffledDecks == [seed \in Seeds |-> createDeck(seed)]

\* a switch without the red-king case; C22_ScoreIsTableSum tells it from
\* CardPoints
CardPoints_KingsAlike(card) ==
  CASE CardValue(card) = <<"A">> -> 1
    [] CardValue(card) = <<"J">> -> 11
    [] CardValue(card) = <<"Q">> -> 12
    [] CardValue(card) = <<"K">> -> 13
    [] OTHER -> parseInt(CardValue(card))

\* one case of calculateScore's switch
CardPoints(card) ==
  CASE CardValue(card) = <<"A">> -> 1
    [] CardValue(card) = <<"J">> -> 11
    [] CardValue(card) = <<"Q">> -> 12
    [] CardValue(card) = <<"K">> -> (IF IsRedSuit(card) THEN -1 ELSE 13)
    [] OTHER -> parseInt(CardValue(card))

\* forEach skips holes; card.value of undefined is a TypeError
ScoreThrows(cards) == \E k \in 1 .. Len(cards) : cards[k] \in {Undefined, Null}

RECURSIVE SumPoints(_, _)
SumPoints(cards, k) ==
  IF k = 0 THEN 0
  ELSE SumPoints(cards, k - 1) + (IF cards[k] \in Cards THEN CardPoints(cards[k]) ELSE 0)

calculateScore(cards) == SumPoints(cards, Len(cards))

\* the client's getCardValue: its own copy of the switch
getCardValue(card) ==
  CASE CardValue(card) = <<"A">> -> 1
    [] CardValue(card) = <<"J">> -> 11
    [] CardValue(card) = <<"Q">> -> 12
    [] CardValue(card) = <<"K">> ->
         (IF CardSuit(card) = "hearts" \/ CardSuit(card) = "diamonds" THEN -1 ELSE 13)
    [] OTHER -> parseInt(CardValue(card))

nextTurn(game) ==
  [game EXCEPT !.currentTurn = (game.currentTurn + 1) % Len(game.players)]

\* `probe` is the call of a function of the cards that is looked at on its
\* own: its name, its argument and, once it returned, its result
VARIABLES games, clients, open, hist, used, probe

vars == <<games, clients, open, hist, used, probe>>

NoProbe == [fn |-> "none"]

(***************************************************************************)
(* Messages and sending.  `out[c]` is what a handler sends to connection  *)
(* c, in order.                                                            *)
(***************************************************************************)
NoOut == [c \in Conns |-> <<>>]

Send(out, ws, msg) == [out EXCEPT ![ws] = Append(@, msg)]

\* broadcast(gameCode, message, excludeClient) over the table `cl`
broadcast(out, cl, gameCode, msg, excludeClient) ==
  [c \in Conns |->
     IF c \in DOMAIN cl /\ cl[c].gameCode = gameCode /\ c # excludeClient /\ c \in open
     THEN Append(out[c], msg)
     ELSE out[c]]

NoClient == 0

ErrorMsg(text) == [type |-> "ERROR", message |-> text]

\* the result of a handler: the registry and the connection table after it,
\* what it sent, and whether it ended in the catch block
Result(g, cl, out, threw) == [games |-> g, clients |-> cl, out |-> out, threw |-> threw]

Rejected(ws, text) == Result(games, clients, Send(NoOut, ws, ErrorMsg(text)), FALSE)

Ignored == Result(games, clients, NoOut, FALSE)

Thrown(g) == Result(g, clients, NoOut, TRUE)

\* games.set(code, game)
SetGame(g, code, game) ==
  [c \in (DOMAIN g) \cup {code} |-> IF c = code THEN game ELSE g[c]]

\* games.delete(code)
DeleteGame(g, code) == [c \in (DOMAIN g) \ {code} |-> g[c]]

\* clients.set(ws, info)
SetClient(cl, ws, info) ==
  [c \in (DOMAIN cl) \cup {ws} |-> IF c = ws THEN info ELSE cl[c]]

\* clients.delete(ws)
DeleteClient(cl, ws) == [c \in (DOMAIN cl) \ {ws} |-> cl[c]]

\* games.get(code) is undefined
NoGame(gameCode) == gameCode \notin DOMAIN games

\* players.find(p => p.id === id): the index of the first match, 0 for undefined
FindPlayer(players, id) ==
  IF \E k \in 1 .. Len(players) : players[k].id = id
  THEN CHOOSE k \in 1 .. Len(players) :
         players[k].id = id /\ \A l \in 1 .. (k - 1) : players[l].id # id
  ELSE 0

NewPlayer(playerId, playerName, isHost) ==
  [id |-> playerId, name |-> playerName, isHost |-> isHost,
   cards |-> <<>>, score |-> 0, canSeeCorners |-> FALSE]

NewGame(code, playerId, playerName) ==
  [code |-> code, host |-> playerId,
   players |-> <<NewPlayer(playerId, playerName, TRUE)>>,
   state |-> "lobby", currentTurn |-> 0, deck |-> <<>>, discardPile |-> <<>>,
   round |-> 1, drawnCard |-> Null, currentPlayerId |-> NullId,
   caboCallerId |-> NullId, turnsAfterCabo |-> 0]

(***************************************************************************)
(* CREATE_GAME: `code` is the outcome of Math.random() in line 99.         *)
(***************************************************************************)
CreateGame(ws, playerId, playerName, code) ==
  LET game == NewGame(code, playerId, playerName)
  IN  Result(SetGame(games, code, game),
             SetClient(clients, ws, [playerId |-> playerId, gameCode |-> code]),
             Send(NoOut, ws, [type |-> "GAME_CREATED", gameCode |-> code, game |-> game]),
             FALSE)

(***************************************************************************)
(* JOIN_GAME                                                               *)
(***************************************************************************)
\* a room that lets a ninth player in; C10_JoinOutcomes tells it from GameIsFull
GameIsFull_OneMore(game) == Len(game.players) > MaxPlayers

GameIsFull(game) == Len(game.players) >= MaxPlayers

NameIsTaken(game, playerName) ==
  \E k \in 1 .. Len(game.players) : game.players[k].name = playerName

JoinGame(ws, playerId, playerName, gameCode) ==
  IF NoGame(gameCode) THEN Rejected(ws, "Game not found")
  ELSE IF GameIsFull(games[gameCode]) THEN Rejected(ws, "Game is full")
  ELSE IF NameIsTaken(games[gameCode], playerName)
       THEN Rejected(ws, "Player name already taken")
  ELSE LET game == [games[gameCode] EXCEPT
                      !.players = Append(@, NewPlayer(playerId, playerName, FALSE))]
           cl == SetClient(clients, ws, [playerId |-> playerId, gameCode |-> gameCode])
           response == [type |-> "GAME_JOINED", game |-> game]
       IN  Result(SetGame(games, gameCode, game), cl,
                  broadcast(Send(NoOut, ws, response), cl, gameCode, response, ws),
                  FALSE)

(***************************************************************************)
(* START_GAME: `seed` names the outcomes of Math.random() in createDeck.   *)
(***************************************************************************)
NotEnoughPlayers(gameCode) ==
  NoGame(gameCode) \/ Len(games[gameCode].players) < MinPlayers

\* the forEach of lines 197-206: each player in turn pops four cards
RECURSIVE Deal(_, _, _)
Deal(players, deck, k) ==
  IF k > Len(players) THEN [players |-> players, deck |-> deck]
  ELSE LET c1 == PopVal(deck)
           d1 == PopRest(deck)
           c2 == PopVal(d1)
           d2 == PopRest(d1)
           c3 == PopVal(d2)
           d3 == PopRest(d2)
           c4 == PopVal(d3)
           d4 == PopRest(d3)
       IN  Deal([players EXCEPT ![k] = [@ EXCEPT !.cards = <<c1, c2, c3, c4>>,
                                                  !.score = 0,
                                                  !.canSeeCorners = TRUE]],
                d4, k + 1)

\* a start that turns up a copy of the card below the top of the deck, which
\* is dealt as well; C32_EachCardInOnePlace tells it from StartedGame
StartedGame_SecondCardTurnedUp(game, seed) ==
  LET deck == ShuffledDecks[seed]
      dealt == Deal(game.players, PopRest(deck), 1)
  IN  [game EXCEPT !.state = "playing",
                   !.deck = dealt.deck,
                   !.discardPile = <<PopVal(PopRest(deck))>>,
                   !.currentPlayerId = game.players[1].id,
                   !.players = dealt.players]

StartedGame(game, seed) ==
  LET deck == ShuffledDecks[seed]
      dealt == Deal(game.players, PopRest(deck), 1)
  IN  [game EXCEPT !.state = "playing",
                   !.deck = dealt.deck,
                   !.discardPile = <<PopVal(deck)>>,
                   !.currentPlayerId = game.players[1].id,
                   !.players = dealt.players]

StartGame(ws, gameCode, seed) ==
  IF NotEnoughPlayers(gameCode) THEN Rejected(ws, "Need at least 2 players")
  ELSE LET game == StartedGame(games[gameCode], seed)
           response == [type |-> "GAME_STARTED", game |-> game]
       IN  Result(SetGame(games, gameCode, game), clients,
                  Send(broadcast(NoOut, clients, gameCode, response, NoClient), ws, response),
                  FALSE)

(***************************************************************************)
(* DRAW_CARD and TAKE_DISCARD                                              *)
(***************************************************************************)
NotYourTurn(gameCode, playerId) ==
  NoGame(gameCode) \/ games[gameCode].currentPlayerId # playerId

\* a turn that may draw twice; C4_AcquireRejected tells it from AlreadyDrew
AlreadyDrew_Never(game) == FALSE

AlreadyDrew(game) == Truthy(game.drawnCard)

\* a draw that reports the session as it was before the card was drawn;
\* C26_SnapshotIsStateAfter tells it from DrawCard
DrawCard_StaleSnapshot(ws, playerId, gameCode) ==
  IF NotYourTurn(gameCode, playerId) THEN Rejected(ws, "Not your turn")
  ELSE IF AlreadyDrew(games[gameCode]) THEN Rejected(ws, "Already drew a card this turn")
  ELSE LET card == PopVal(games[gameCode].deck)
           game == [games[gameCode] EXCEPT !.deck = PopRest(@), !.drawnCard = card]
           response == [type |-> "CARD_DRAWN", game |-> games[gameCode],
                        drawnCard |-> card, playerId |-> playerId]
       IN  Result(SetGame(games, gameCode, game), clients,
                  Send(broadcast(NoOut, clients, gameCode, response, NoClient), ws, response),
                  FALSE)

DrawCard(ws, playerId, gameCode) ==
  IF NotYourTurn(gameCode, playerId) THEN Rejected(ws, "Not your turn")
  ELSE IF AlreadyDrew(games[gameCode]) THEN Rejected(ws, "Already drew a card this turn")
  ELSE LET card == PopVal(games[gameCode].deck)
           game == [games[gameCode] EXCEPT !.deck = PopRest(@), !.drawnCard = card]
           response == [type |-> "CARD_DRAWN", game |-> game, drawnCard |-> card,
                        playerId |-> playerId]
       IN  Result(SetGame(games, gameCode, game), clients,
                  Send(broadcast(NoOut, clients, gameCode, response, NoClient), ws, response),
                  FALSE)

\* a take-discard that does not look whether a card is held;
\* C21_OneAcquirePerTurn tells it from TakeDiscard
TakeDiscard_HeldUnchecked(ws, playerId, gameCode) ==
  IF NotYourTurn(gameCode, playerId) THEN Rejected(ws, "Not your turn")
  ELSE LET card == PopVal(games[gameCode].discardPile)
           game == [games[gameCode] EXCEPT !.discardPile = PopRest(@), !.drawnCard = card]
           response == [type |-> "CARD_DRAWN", game |-> game, drawnCard |-> card,
                        playerId |-> playerId]
       IN  Result(SetGame(games, gameCode, game), clients,
                  Send(broadcast(NoOut, clients, gameCode, response, NoClient), ws, response),
                  FALSE)

TakeDiscard(ws, playerId, gameCode) ==
  IF NotYourTurn(gameCode, playerId) THEN Rejected(ws, "Not your turn")
  ELSE IF AlreadyDrew(games[gameCode]) THEN Rejected(ws, "Already drew a card this turn")
  ELSE LET card == PopVal(games[gameCode].discardPile)
           game == [games[gameCode] EXCEPT !.discardPile = PopRest(@), !.drawnCard = card]
           response == [type |-> "CARD_DRAWN", game |-> game, drawnCard |-> card,
                        playerId |-> playerId]
       IN  Result(SetGame(games, gameCode, game), clients,
                  Send(broadcast(NoOut, clients, gameCode, response, NoClient), ws, response),
                  FALSE)

(***************************************************************************)
(* REPLACE_CARD and DISCARD_DRAWN                                          *)
(***************************************************************************)
\* a resolve that does not look for the held card; C5_OneErrorKind tells it
\* from InvalidAction
InvalidAction_HeldUnchecked(gameCode, playerId) ==
  NoGame(gameCode) \/ games[gameCode].currentPlayerId # playerId

InvalidAction(gameCode, playerId) ==
  \/ NoGame(gameCode)
  \/ games[gameCode].currentPlayerId # playerId
  \/ ~Truthy(games[gameCode].drawnCard)

\* the index of the first player whose hand makes calculateScore throw, 0 if none
FirstThrower(players) ==
  IF \E k \in 1 .. Len(players) : ScoreThrows(players[k].cards)
  THEN CHOOSE k \in 1 .. Len(players) :
         /\ ScoreThrows(players[k].cards)
         /\ \A l \in 1 .. (k - 1) : ~ScoreThrows(players[l].cards)
  ELSE 0

\* players.forEach(p => p.score = calculateScore(p.cards)), as far as it gets
ScoreAll(players) ==
  LET t == FirstThrower(players)
  IN  [k \in 1 .. Len(players) |->
         IF t = 0 \/ k < t
         THEN [players[k] EXCEPT !.score = calculateScore(players[k].cards)]
         ELSE players[k]]

RoundIsOver(game) == game.turnsAfterCabo >= Len(game.players)

\* lines 300-310 and 340-349; the game as the catch block finds it when
\* calculateScore throws
CheckCabo(game) ==
  IF game.caboCallerId = NullId THEN game
  ELSE LET counted == [game EXCEPT !.turnsAfterCabo = @ + 1]
       IN  IF ~RoundIsOver(counted) THEN counted
           ELSE IF FirstThrower(counted.players) # 0
                THEN [counted EXCEPT !.players = ScoreAll(counted.players)]
                ELSE [counted EXCEPT !.players = ScoreAll(counted.players),
                                     !.state = "finished"]

CheckCaboThrows(game) ==
  /\ game.caboCallerId # NullId
  /\ RoundIsOver([game EXCEPT !.turnsAfterCabo = @ + 1])
  /\ FirstThrower(game.players) # 0

\* lines 312-315 and 351-354
AdvanceTurn(game) ==
  IF game.state = "playing"
  THEN LET turned == nextTurn(game)
       IN  [turned EXCEPT !.currentPlayerId = turned.players[turned.currentTurn + 1].id]
  ELSE game

\* what follows the hand and pile updates of a resolve
EndTurn(ws, gameCode, placed, type) ==
  IF CheckCaboThrows(placed) THEN Thrown(SetGame(games, gameCode, CheckCabo(placed)))
  ELSE LET game == AdvanceTurn(CheckCabo(placed))
           response == [type |-> type, game |-> game]
       IN  Result(SetGame(games, gameCode, game), clients,
                  Send(broadcast(NoOut, clients, gameCode, response, NoClient), ws, response),
                  FALSE)

\* a replace that discards the held card and loses the card of the slot;
\* C28_CardsMoveAsStated tells it from ReplacedCard
ReplacedCard_SlotCardLost(game, k, cardIndex) ==
  [game EXCEPT !.players[k].cards = WriteSlot(@, cardIndex, game.drawnCard),
               !.discardPile = Append(@, game.drawnCard),
               !.drawnCard = Null]

ReplacedCard(game, k, cardIndex) ==
  [game EXCEPT !.players[k].cards = WriteSlot(@, cardIndex, game.drawnCard),
               !.discardPile = Append(@, ReadSlot(game.players[k].cards, cardIndex)),
               !.drawnCard = Null]

ReplaceCard(ws, playerId, gameCode, cardIndex) ==
  IF InvalidAction(gameCode, playerId) THEN Rejected(ws, "Invalid action")
  ELSE LET k == FindPlayer(games[gameCode].players, playerId)
       IN  IF k = 0 THEN Thrown(games)
           ELSE EndTurn(ws, gameCode, ReplacedCard(games[gameCode], k, cardIndex),
                        "CARD_REPLACED")

\* a discard that loses the card; C1_SumWithHeld tells it from DiscardedDrawn
DiscardedDrawn_CardLost(game) == [game EXCEPT !.drawnCard = Null]

\* a discard that slips the held card under the discard pile;
\* C38_TakeThenDiscard tells it from DiscardedDrawn
DiscardedDrawn_Underneath(game) ==
  [game EXCEPT !.discardPile = <<game.drawnCard>> \o @, !.drawnCard = Null]

DiscardedDrawn(game) ==
  [game EXCEPT !.discardPile = Append(@, game.drawnCard), !.drawnCard = Null]

DiscardDrawn(ws, playerId, gameCode) ==
  IF InvalidAction(gameCode, playerId) THEN Rejected(ws, "Invalid action")
  ELSE EndTurn(ws, gameCode, DiscardedDrawn(games[gameCode]), "CARD_DISCARDED")

(***************************************************************************)
(* CALL_CABO                                                               *)
(***************************************************************************)
\* a Cabo that may be called again; C8_CaboCalledOnce tells it from
\* CaboAlreadyCalled
CaboAlreadyCalled_Never(game) == FALSE

CaboAlreadyCalled(game) == game.caboCallerId # NullId

\* a call that passes the turn on; C29_CaboKeepsTheTurn tells it from
\* CalledCabo
CalledCabo_TurnPassed(game, playerId) ==
  [game EXCEPT !.caboCallerId = playerId, !.turnsAfterCabo = 0,
               !.currentTurn = (game.currentTurn + 1) % Len(game.players),
               !.currentPlayerId =
                  game.players[((game.currentTurn + 1) % Len(game.players)) + 1].id]

CalledCabo(game, playerId) ==
  [game EXCEPT !.caboCallerId = playerId, !.turnsAfterCabo = 0]

CallCabo(ws, playerId, gameCode) ==
  IF NotYourTurn(gameCode, playerId) THEN Rejected(ws, "Not your turn")
  ELSE IF CaboAlreadyCalled(games[gameCode]) THEN Rejected(ws, "Cabo already called")
  ELSE LET game == CalledCabo(games[gameCode], playerId)
           k == FindPlayer(game.players, playerId)
       IN  IF k = 0 THEN Thrown(SetGame(games, gameCode, game))
           ELSE LET response == [type |-> "CABO_CALLED", game |-> game,
                                 callerName |-> game.players[k].name]
                IN  Result(SetGame(games, gameCode, game), clients,
                           Send(broadcast(NoOut, clients, gameCode, response, NoClient),
                                ws, response),
                           FALSE)

(***************************************************************************)
(* PEEK_OWN_CARD, PEEK_OPPONENT_CARD and SWITCH_CARDS                      *)
(***************************************************************************)
PeekOwnCard(ws, playerId, gameCode, cardIndex) ==
  IF NoGame(gameCode) THEN Ignored
  ELSE LET k == FindPlayer(games[gameCode].players, playerId)
       IN  IF k = 0 THEN Thrown(games)
           ELSE Result(games, clients,
                       Send(NoOut, ws,
                            [type |-> "CARD_PEEKED",
                             card |-> ReadSlot(games[gameCode].players[k].cards, cardIndex),
                             cardIndex |-> cardIndex]),
                       FALSE)

\* a peek that shows the card to the whole room; C17_PeekIsPrivate tells it
\* from PeekOpponentCard
PeekOpponentCard_Broadcast(ws, opponentId, gameCode, cardIndex) ==
  IF NoGame(gameCode) THEN Ignored
  ELSE LET k == FindPlayer(games[gameCode].players, opponentId)
           response == [type |-> "OPPONENT_CARD_PEEKED",
                        card |-> IF k = 0 THEN Undefined
                                 ELSE ReadSlot(games[gameCode].players[k].cards, cardIndex),
                        cardIndex |-> cardIndex,
                        opponentId |-> opponentId]
       IN  IF k = 0 THEN Thrown(games)
           ELSE Result(games, clients,
                       broadcast(Send(NoOut, ws, response), clients, gameCode, response, ws),
                       FALSE)

PeekOpponentCard(ws, opponentId, gameCode, cardIndex) ==
  IF NoGame(gameCode) THEN Ignored
  ELSE LET k == FindPlayer(games[gameCode].players, opponentId)
       IN  IF k = 0 THEN Thrown(games)
           ELSE Result(games, clients,
                       Send(NoOut, ws,
                            [type |-> "OPPONENT_CARD_PEEKED",
                             card |-> ReadSlot(games[gameCode].players[k].cards, cardIndex),
                             cardIndex |-> cardIndex,
                             opponentId |-> opponentId]),
                       FALSE)

\* a switch that copies one way only; C16_SwitchFrame tells it from
\* SwitchedCards
SwitchedCards_OneWay(game, k, o, playerCardIndex, opponentCardIndex) ==
  [game EXCEPT !.players[k].cards =
     WriteSlot(@, playerCardIndex, ReadSlot(game.players[o].cards, opponentCardIndex))]

\* lines 436-438, on the players k (the requester) and o (the opponent)
SwitchedCards(game, k, o, playerCardIndex, opponentCardIndex) ==
  LET temp == ReadSlot(game.players[k].cards, playerCardIndex)
      moved == [game EXCEPT !.players[k].cards =
                  WriteSlot(@, playerCardIndex,
                            ReadSlot(game.players[o].cards, opponentCardIndex))]
  IN  [moved EXCEPT !.players[o].cards = WriteSlot(@, opponentCardIndex, temp)]

SwitchCards(ws, playerId, opponentId, gameCode, playerCardIndex, opponentCardIndex) ==
  IF NoGame(gameCode) THEN Ignored
  ELSE LET k == FindPlayer(games[gameCode].players, playerId)
           o == FindPlayer(games[gameCode].players, opponentId)
       IN  IF k = 0 \/ o = 0 THEN Thrown(games)
           ELSE LET game == SwitchedCards(games[gameCode], k, o,
                                          playerCardIndex, opponentCardIndex)
                    response == [type |-> "CARDS_SWITCHED", game |-> game]
                IN  Result(SetGame(games, gameCode, game), clients,
                           Send(broadcast(NoOut, clients, gameCode, response, NoClient),
                                ws, response),
                           FALSE)

(***************************************************************************)
(* LEAVE_GAME and the close event                                          *)
(***************************************************************************)
\* game.players.filter(p => p.id !== playerId)
RECURSIVE FilterPlayers(_, _)
FilterPlayers(players, playerId) ==
  IF players = <<>> THEN <<>>
  ELSE IF Head(players).id = playerId THEN FilterPlayers(Tail(players), playerId)
  ELSE <<Head(players)>> \o FilterPlayers(Tail(players), playerId)

\* lines 461-464 and 494-497
\* a host who leaves without an heir; C11_OneHost tells it from NewHost
NewHost_Nobody(game, playerId) == game

NewHost(game, playerId) ==
  IF game.host = playerId /\ Len(game.players) > 0
  THEN [game EXCEPT !.host = game.players[1].id, !.players[1].isHost = TRUE]
  ELSE game

\* lines 453-471: the registry after the player bound to a connection is
\* taken out, and whether PLAYER_LEFT is broadcast
Departed(info) ==
  IF NoGame(info.gameCode) THEN [games |-> games, notify |-> FALSE]
  ELSE LET left == [games[info.gameCode] EXCEPT
                      !.players = FilterPlayers(@, info.playerId)]
       IN  IF Len(left.players) = 0
           THEN [games |-> DeleteGame(games, info.gameCode), notify |-> FALSE]
           ELSE [games |-> SetGame(games, info.gameCode, NewHost(left, info.playerId)),
                 notify |-> TRUE]

PlayerLeft(g, gameCode) == [type |-> "PLAYER_LEFT", game |-> g[gameCode]]

LeaveGame(ws) ==
  IF ws \notin DOMAIN clients
  THEN Result(games, clients, Send(NoOut, ws, [type |-> "GAME_LEFT"]), FALSE)
  ELSE LET d == Departed(clients[ws])
           code == clients[ws].gameCode
           sent == IF d.notify
                   THEN broadcast(NoOut, clients, code, PlayerLeft(d.games, code), NoClient)
                   ELSE NoOut
       IN  Result(d.games, DeleteClient(clients, ws),
                  Send(sent, ws, [type |-> "GAME_LEFT"]), FALSE)

\* a close handler that keeps the binding of the closed connection;
\* C30_CloseIsLeave tells it from CloseConn
CloseConn_BindingKept(ws) ==
  IF ws \notin DOMAIN clients THEN Ignored
  ELSE LET clientInfo == clients[ws]
       IN  IF NoGame(clientInfo.gameCode) THEN Ignored
           ELSE LET rest == FilterPlayers(games[clientInfo.gameCode].players,
                                          clientInfo.playerId)
                    game == NewHost([games[clientInfo.gameCode] EXCEPT !.players = rest],
                                    clientInfo.playerId)
                    g == SetGame(games, clientInfo.gameCode, game)
                IN  IF Len(rest) = 0
                    THEN Result(DeleteGame(games, clientInfo.gameCode), clients, NoOut, FALSE)
                    ELSE Result(g, clients,
                                broadcast(NoOut, clients, clientInfo.gameCode,
                                          PlayerLeft(g, clientInfo.gameCode), ws),
                                FALSE)

\* ws.on('close'), lines 484-506; the closing socket is no longer OPEN, so
\* broadcast skips it
CloseConn(ws) ==
  IF ws \notin DOMAIN clients THEN Ignored
  ELSE LET clientInfo == clients[ws]
       IN  IF NoGame(clientInfo.gameCode)
           THEN Result(games, DeleteClient(clients, ws), NoOut, FALSE)
           ELSE LET rest == FilterPlayers(games[clientInfo.gameCode].players,
                                          clientInfo.playerId)
                    game == NewHost([games[clientInfo.gameCode] EXCEPT !.players = rest],
                                    clientInfo.playerId)
                    g == SetGame(games, clientInfo.gameCode, game)
                IN  IF Len(rest) = 0
                    THEN Result(DeleteGame(games, clientInfo.gameCode),
                                DeleteClient(clients, ws), NoOut, FALSE)
                    ELSE Result(g, DeleteClient(clients, ws),
                                broadcast(NoOut, clients, clientInfo.gameCode,
                                          PlayerLeft(g, clientInfo.gameCode), ws),
                                FALSE)

(***************************************************************************)
(* History kept beside the program state, per room code, to state the      *)
(* claims: `gen` counts the sessions created under the code, `starts` the  *)
(* accepted START_GAMEs of the session, `changed` says that the roster     *)
(* changed since the last start, `turns` lists the players whose resolve   *)
(* was accepted since the last start or roster change, `holder` is the     *)
(* player whose draw or take put the held card there, `caboN` the roster   *)
(* size when Cabo was called (0: not called), `caboBy` the first player to *)
(* call it, `caboResolves` the resolves accepted since the call,           *)
(* `caboChanged` that the roster changed since the call.                   *)
(***************************************************************************)
FreshHist(gen) ==
  [gen |-> gen, starts |-> 0, changed |-> FALSE, turns |-> <<>>, holder |-> NullId,
   caboBy |-> NullId, caboN |-> 0, caboResolves |-> 0, caboChanged |-> FALSE]

RosterChanged(h) ==
  [h EXCEPT !.changed = TRUE, !.turns = <<>>, !.caboChanged = (h.caboN > 0)]

Started(h) == [h EXCEPT !.starts = @ + 1, !.changed = FALSE, !.turns = <<>>]

Acquired(h, playerId) == [h EXCEPT !.holder = playerId]

Resolved(h, playerId) ==
  [h EXCEPT !.holder = NullId,
            !.turns = Append(@, playerId),
            !.caboResolves = IF h.caboN > 0 THEN @ + 1 ELSE @]

Called(h, playerId, n) ==
  [h EXCEPT !.caboBy = IF @ = NullId THEN playerId ELSE @,
            !.caboN = n, !.caboResolves = 0, !.caboChanged = FALSE]

\* a handler changed the program state
Changes(r) == r.games # games \/ r.clients # clients

\* the step of a handler with result r; a request that changes nothing
\* (rejected, ignored, or thrown before its first assignment) is a
\* stuttering step
Apply(r) == Changes(r) /\ games' = r.games /\ clients' = r.clients /\ probe' = probe

(***************************************************************************)
(* The environment.  The main line of play is: connect, create a room,     *)
(* join it in the lobby, start it, draw, discard the drawn card, call      *)
(* Cabo.  Every other accepted request is of one of the kinds below.  A    *)
(* behaviour belongs to one family of kinds and takes each kind of its     *)
(* family at most once ("crowd": at most MaxCrowd times); `used.left`      *)
(* holds the kinds it may still take.                                      *)
(*   "join"    a join of a room that has left the lobby                    *)
(*   "again"   a join of a finished room once the "join" is taken          *)
(*   "crowd"   a join of a lobby that has MaxStartPlayers players or more  *)
(*   "start"   a start of a room that has left the lobby                   *)
(*   "retake"  a take-discard once the "take" is taken                     *)
(*   "rejoin"  a CREATE_GAME or JOIN_GAME on a connection that is bound    *)
(*   "leave", "close", "switch", "replace", "take"                         *)
(***************************************************************************)
Families ==
  {{"join", "switch"}, {"start", "leave"}, {"replace", "take"}, {"crowd"}, {"close"}}

NoKind == "none"

Spend(kind, resolves) ==
  /\ kind # NoKind => kind \in used.left
  /\ kind = "crowd" => used.crowd < MaxCrowd
  /\ used.resolves + resolves <= MaxResolves
  /\ used' = [used EXCEPT !.resolves = @ + resolves,
                          !.crowd = IF kind = "crowd" THEN @ + 1 ELSE @,
                          !.left = IF kind = "crowd" THEN @ ELSE @ \ {kind}]

Bound(ws) == ws \in DOMAIN clients

PlayerIds(gameCode) ==
  IF NoGame(gameCode) THEN {}
  ELSE {games[gameCode].players[k].id : k \in 1 .. Len(games[gameCode].players)}

PlayerNames(gameCode) ==
  IF NoGame(gameCode) THEN {}
  ELSE {games[gameCode].players[k].name : k \in 1 .. Len(games[gameCode].players)}

\* ids and names are only compared for equality: a new player takes the
\* first id not in the room, and the first name not in the room or the name
\* of one who is
FreshId(gameCode) ==
  Ids[CHOOSE k \in 1 .. Len(Ids) :
        /\ Ids[k] \notin PlayerIds(gameCode)
        /\ \A l \in 1 .. (k - 1) : Ids[l] \in PlayerIds(gameCode)]

FreshName(gameCode) ==
  Names[CHOOSE k \in 1 .. Len(Names) :
          /\ Names[k] \notin PlayerNames(gameCode)
          /\ \A l \in 1 .. (k - 1) : Names[l] \in PlayerNames(gameCode)]

NameChoices(gameCode) ==
  {FreshName(gameCode)} \cup
  (IF NoGame(gameCode) THEN {} ELSE {games[gameCode].players[1].name})

\* a stranger to every room
Outsider == Ids[Len(Ids)]

RequestIds(gameCode) == PlayerIds(gameCode) \cup {Outsider}

\* the code drawn for a new room: one that is free, or one that is taken
CodeChoices == IF DOMAIN games = {} THEN {"AAAAAA"} ELSE Codes

\* the slots a switch request names: the corner cards
SwitchSlots == {0, HandSize - 1}

\* a turn request changes the state in the same way whichever connection it
\* arrives on, so one sender stands for all
Senders == IF open = {} THEN {} ELSE {CHOOSE c \in open : \A d \in open : c <= d}

\* no handler of a turn request or of JOIN_GAME reads what its connection is
\* bound to, so the least open connection and the unbound ones stand for
\* every requester
Requesters == Senders \cup {c \in open : ~Bound(c)}

Init ==
  /\ games = [c \in {} |-> 0]
  /\ clients = [c \in {} |-> 0]
  /\ open = {}
  /\ hist = [c \in Codes |-> FreshHist(0)]
  /\ probe = NoProbe
  /\ \E family \in Families :
       used = [left |-> family, crowd |-> 0, resolves |-> 0, conns |-> 0]

\* wss.on('connection'): a client connects once every open connection is bound
Connect ==
  /\ used.conns < MaxConns
  /\ \A c \in open : Bound(c)
  /\ open' = open \cup {used.conns + 1}
  /\ used' = [used EXCEPT !.conns = @ + 1]
  /\ UNCHANGED <<games, clients, hist, probe>>

CREATE_GAME ==
  \E ws \in open, code \in CodeChoices :
    LET r == CreateGame(ws, Ids[1], Names[1], code)
    IN  /\ Spend(IF Bound(ws) THEN "rejoin"
                 ELSE IF DOMAIN games # {} THEN "create" ELSE NoKind, 0)
        /\ Apply(r)
        /\ hist' = [hist EXCEPT ![code] = FreshHist(@.gen + 1)]
        /\ UNCHANGED open

JOIN_GAME ==
  \E ws \in open, code \in DOMAIN games :
    \E name \in NameChoices(code) :
      LET r == JoinGame(ws, FreshId(code), name, code)
      IN  /\ Spend(IF Bound(ws) THEN "rejoin"
                   ELSE IF games[code].state # "lobby"
                     THEN (IF "join" \in used.left \/ games[code].state # "finished"
                           THEN "join" ELSE "again")
                   ELSE IF Len(games[code].players) >= MaxStartPlayers THEN "crowd"
                   ELSE NoKind, 0)
          /\ Apply(r)
          /\ hist' = [hist EXCEPT ![code] = RosterChanged(@)]
          /\ UNCHANGED open

START_GAME ==
  \E ws \in Senders, code \in DOMAIN games, seed \in Seeds :
    LET r == StartGame(ws, code, seed)
    IN  /\ Len(games[code].players) <= MaxStartPlayers
        /\ Spend(IF games[code].state # "lobby" THEN "start" ELSE NoKind, 0)
        /\ Apply(r)
        /\ hist' = [hist EXCEPT ![code] = Started(@)]
        /\ UNCHANGED open

DRAW_CARD ==
  \E ws \in Senders, code \in DOMAIN games :
    \E playerId \in RequestIds(code) :
      LET r == DrawCard(ws, playerId, code)
      IN  /\ used.resolves < MaxResolves
          /\ Apply(r)
          /\ hist' = [hist EXCEPT ![code] = Acquired(@, playerId)]
          /\ UNCHANGED <<open, used>>

TAKE_DISCARD ==
  \E ws \in Senders, code \in DOMAIN games :
    \E playerId \in RequestIds(code) :
      LET r == TakeDiscard(ws, playerId, code)
      IN  /\ Spend(IF "take" \in used.left THEN "take" ELSE "retake", 0)
          /\ Apply(r)
          /\ used.resolves < MaxResolves
          /\ hist' = [hist EXCEPT ![code] = Acquired(@, playerId)]
          /\ UNCHANGED open

REPLACE_CARD ==
  \E ws \in Senders, code \in DOMAIN games :
    \E playerId \in RequestIds(code), cardIndex \in Slots :
      LET r == ReplaceCard(ws, playerId, code, cardIndex)
      IN  /\ Spend("replace", 1)
          /\ Apply(r)
          /\ hist' = [hist EXCEPT ![code] = Resolved(@, playerId)]
          /\ UNCHANGED open

DISCARD_DRAWN ==
  \E ws \in Senders, code \in DOMAIN games :
    \E playerId \in RequestIds(code) :
      LET r == DiscardDrawn(ws, playerId, code)
      IN  /\ Spend(NoKind, 1)
          /\ Apply(r)
          /\ hist' = [hist EXCEPT ![code] = Resolved(@, playerId)]
          /\ UNCHANGED open

CALL_CABO ==
  \E ws \in Senders, code \in DOMAIN games :
    \E playerId \in RequestIds(code) :
      LET r == CallCabo(ws, playerId, code)
      IN  /\ Apply(r)
          /\ hist' = [hist EXCEPT ![code] = Called(@, playerId, Len(games[code].players))]
          /\ UNCHANGED <<open, used>>

SWITCH_CARDS ==
  \E ws \in Senders, code \in DOMAIN games :
    \E playerId \in RequestIds(code), opponentId \in RequestIds(code),
       playerCardIndex \in SwitchSlots, opponentCardIndex \in SwitchSlots :
      LET r == SwitchCards(ws, playerId, opponentId, code,
                           playerCardIndex, opponentCardIndex)
      IN  /\ Spend("switch", 0)
          /\ Apply(r)
          /\ UNCHANGED <<open, hist>>

LEAVE_GAME ==
  \E ws \in open :
    LET r == LeaveGame(ws)
    IN  /\ Spend("leave", 0)
        /\ Apply(r)
        /\ hist' = [hist EXCEPT ![clients[ws].gameCode] = RosterChanged(@)]
        /\ UNCHANGED open

\* ws.on('close')
Close ==
  \E ws \in open :
    LET r == CloseConn(ws)
    IN  /\ games' = r.games
        /\ clients' = r.clients
        /\ Spend("close", 0)
        /\ open' = open \ {ws}
        /\ IF Changes(r)
           THEN hist' = [hist EXCEPT ![clients[ws].gameCode] = RosterChanged(@)]
           ELSE UNCHANGED hist
        /\ UNCHANGED probe

Next ==
  \/ Connect
  \/ CREATE_GAME
  \/ JOIN_GAME
  \/ START_GAME
  \/ DRAW_CARD
  \/ TAKE_DISCARD
  \/ REPLACE_CARD
  \/ DISCARD_DRAWN
  \/ CALL_CABO
  \/ SWITCH_CARDS
  \/ LEAVE_GAME
  \/ Close

Spec == Init /\ [][Next]_vars

(***************************************************************************)
(* The table: the behaviours in which hands are looked at and exchanged.   *)
(* Clients create a room, join it in the lobby or later, start it, play    *)
(* turns, call Cabo, switch cards and peek.  What a peek or a switch does  *)
(* is stated of every request in every state of these behaviours.          *)
(***************************************************************************)
InitTable ==
  /\ games = [c \in {} |-> 0]
  /\ clients = [c \in {} |-> 0]
  /\ open = {}
  /\ hist = [c \in Codes |-> FreshHist(0)]
  /\ probe = NoProbe
  /\ used = [left |-> {"join", "switch"}, crowd |-> 0, resolves |-> 0, conns |-> 0]

\* a peek is answered and changes nothing
PEEK_OWN_CARD ==
  \E ws \in Senders, code \in DOMAIN games :
    \E playerId \in RequestIds(code), cardIndex \in SwitchSlots :
      LET r == PeekOwnCard(ws, playerId, code, cardIndex)
      IN  /\ r.out[ws] # <<>>
          /\ games' = r.games
          /\ clients' = r.clients
          /\ UNCHANGED <<open, hist, used, probe>>

PEEK_OPPONENT_CARD ==
  \E ws \in Senders, code \in DOMAIN games :
    \E opponentId \in RequestIds(code), cardIndex \in SwitchSlots :
      LET r == PeekOpponentCard(ws, opponentId, code, cardIndex)
      IN  /\ r.out[ws] # <<>>
          /\ games' = r.games
          /\ clients' = r.clients
          /\ UNCHANGED <<open, hist, used, probe>>

NextTable ==
  \/ Connect
  \/ CREATE_GAME
  \/ JOIN_GAME
  \/ START_GAME
  \/ DRAW_CARD
  \/ DISCARD_DRAWN
  \/ CALL_CABO
  \/ SWITCH_CARDS
  \/ PEEK_OWN_CARD
  \/ PEEK_OPPONENT_CARD

SpecTable == InitTable /\ [][NextTable]_vars

(***************************************************************************)
(* The turns: the behaviours in which a turn is played in every way the    *)
(* server offers.  Clients create a room, join it in the lobby, start it,  *)
(* draw or take the top of the discard pile, replace a card of the hand or *)
(* discard the held card, and call Cabo.                                   *)
(***************************************************************************)
InitTurn ==
  /\ games = [c \in {} |-> 0]
  /\ clients = [c \in {} |-> 0]
  /\ open = {}
  /\ hist = [c \in Codes |-> FreshHist(0)]
  /\ probe = NoProbe
  /\ used = [left |-> {"replace", "take"}, crowd |-> 0, resolves |-> 0, conns |-> 0]

NextTurn ==
  \/ Connect
  \/ CREATE_GAME
  \/ JOIN_GAME
  \/ START_GAME
  \/ DRAW_CARD
  \/ TAKE_DISCARD
  \/ REPLACE_CARD
  \/ DISCARD_DRAWN
  \/ CALL_CABO

SpecTurn == InitTurn /\ [][NextTurn]_vars

(***************************************************************************)
(* The cards: createDeck, calculateScore and the client's getCardValue,    *)
(* each called once on an argument of its own.  A hand is any sequence of  *)
(* at most MaxScored cards, a hand of HandSize cards lying together in a   *)
(* shuffled deck, or one of two named hands.  Math.random() returns the    *)
(* outcomes of a stream, but for one iteration of the shuffle loop, where  *)
(* it returns any outcome.                                                 *)
(***************************************************************************)
CardOf(suit, value) == CHOOSE c \in Cards : CardSuit(c) = suit /\ CardValue(c) = value

NamedHands ==
  { <<CardOf("spades", <<"A">>), CardOf("hearts", <<"K">>),
      CardOf("clubs", <<"5">>), CardOf("diamonds", <<"Q">>)>>,
    <<CardOf("spades", <<"K">>), CardOf("hearts", <<"K">>),
      CardOf("diamonds", <<"K">>), CardOf("clubs", <<"K">>)>> }

ScoredHands ==
  UNION {[1 .. n -> Cards] : n \in 0 .. MaxScored}
    \cup {SubSeq(ShuffledDecks[seed], k, k + HandSize - 1) :
            seed \in Seeds, k \in 1 .. (DeckSize - HandSize + 1)}
    \cup NamedHands

RandomOutcomes ==
  {[Stream(seed) EXCEPT ![i] = rnd] :
     seed \in Seeds, i \in 1 .. (DeckSize - 1), rnd \in 0 .. (RandDen - 1)}

Call(fn, arg) == [fn |-> fn, arg |-> arg, done |-> FALSE, ret |-> 0]

InitCards ==
  /\ games = [c \in {} |-> 0]
  /\ clients = [c \in {} |-> 0]
  /\ open = {}
  /\ hist = [c \in Codes |-> FreshHist(0)]
  /\ used = [left |-> {}, crowd |-> 0, resolves |-> 0, conns |-> 0]
  /\ \/ \E cards \in ScoredHands : probe = Call("calculateScore", cards)
     \/ \E card \in Cards : probe = Call("getCardValue", card)
     \/ \E random \in RandomOutcomes : probe = Call("createDeck", random)

Return(fn, ret) ==
  /\ probe.fn = fn
  /\ ~probe.done
  /\ probe' = [probe EXCEPT !.done = TRUE, !.ret = ret]
  /\ UNCHANGED <<games, clients, open, hist, used>>

CalculateScore == Return("calculateScore", calculateScore(probe.arg))

GetCardValue == Return("getCardValue", getCardValue(probe.arg))

CreateDeck == Return("createDeck", createDeckWith(probe.arg))

NextCards ==
  \/ CalculateScore
  \/ GetCardValue
  \/ CreateDeck

SpecCards == InitCards /\ [][NextCards]_vars

(***************************************************************************)
(* The rooms: the behaviours with a second room.  Clients create a room,   *)
(* join it, start it, draw and call Cabo, and once a client creates a room *)
(* while another exists, under a free code or under the code of the        *)
(* existing room.                                                          *)
(***************************************************************************)
InitRooms ==
  /\ games = [c \in {} |-> 0]
  /\ clients = [c \in {} |-> 0]
  /\ open = {}
  /\ hist = [c \in Codes |-> FreshHist(0)]
  /\ probe = NoProbe
  /\ used = [left |-> {"create"}, crowd |-> 0, resolves |-> 0, conns |-> 0]

NextRooms ==
  \/ Connect
  \/ CREATE_GAME
  \/ JOIN_GAME
  \/ START_GAME
  \/ DRAW_CARD
  \/ CALL_CABO

SpecRooms == InitRooms /\ [][NextRooms]_vars

(***************************************************************************)
(* After the round: the behaviours in which a room goes on after it is     *)
(* finished.  Clients create a room, join it in the lobby, start it, call  *)
(* Cabo, draw and discard until the round is over, and two more clients    *)
(* join.                                                                   *)
(***************************************************************************)
InitAfter ==
  /\ games = [c \in {} |-> 0]
  /\ clients = [c \in {} |-> 0]
  /\ open = {}
  /\ hist = [c \in Codes |-> FreshHist(0)]
  /\ probe = NoProbe
  /\ used = [left |-> {"join", "again"}, crowd |-> 0, resolves |-> 0, conns |-> 0]

NextAfter ==
  \/ Connect
  \/ CREATE_GAME
  \/ JOIN_GAME
  \/ START_GAME
  \/ DRAW_CARD
  \/ DISCARD_DRAWN
  \/ CALL_CABO

SpecAfter == InitAfter /\ [][NextAfter]_vars

(***************************************************************************)
(* The door: the behaviours in which players go.  Clients create a room,   *)
(* join it, start it and draw; one of them sends LEAVE_GAME and the        *)
(* connection of one of them closes.                                       *)
(***************************************************************************)
InitDoor ==
  /\ games = [c \in {} |-> 0]
  /\ clients = [c \in {} |-> 0]
  /\ open = {}
  /\ hist = [c \in Codes |-> FreshHist(0)]
  /\ probe = NoProbe
  /\ used = [left |-> {"leave", "close"}, crowd |-> 0, resolves |-> 0, conns |-> 0]

NextDoor ==
  \/ Connect
  \/ CREATE_GAME
  \/ JOIN_GAME
  \/ START_GAME
  \/ DRAW_CARD
  \/ LEAVE_GAME
  \/ Close

SpecDoor == InitDoor /\ [][NextDoor]_vars

(***************************************************************************)
(* The willing players: the behaviours of the table in which the player    *)
(* whose turn it is does not stall: a draw that stays possible is made,    *)
(* and so is a discard of the held card.  Nobody leaves.                   *)
(***************************************************************************)
(***************************************************************************)
(* One session played with every request that moves a card: draw,          *)
(* take-discard, replace, discard-held and switch, with call-cabo between   *)
(* them.  PeekOwnCard and PeekOpponentCard return games and clients as they *)
(* are, so a peek is a stuttering step here.                                *)
(***************************************************************************)
InitPlay ==
  /\ games = [c \in {} |-> 0]
  /\ clients = [c \in {} |-> 0]
  /\ open = {}
  /\ hist = [c \in Codes |-> FreshHist(0)]
  /\ probe = NoProbe
  /\ used = [left |-> {"switch", "replace", "take"}, crowd |-> 0, resolves |-> 0,
             conns |-> 0]

NextPlay ==
  \/ Connect
  \/ CREATE_GAME
  \/ JOIN_GAME
  \/ START_GAME
  \/ DRAW_CARD
  \/ TAKE_DISCARD
  \/ REPLACE_CARD
  \/ DISCARD_DRAWN
  \/ CALL_CABO
  \/ SWITCH_CARDS

SpecPlay == InitPlay /\ [][NextPlay]_vars

(***************************************************************************)
(* One session played on and on: the players draw and discard in turn, and *)
(* the discards are not counted against MaxResolves.  The deck only        *)
(* shrinks, so the play comes to an end by itself.                          *)
(***************************************************************************)
InitDeck ==
  /\ games = [c \in {} |-> 0]
  /\ clients = [c \in {} |-> 0]
  /\ open = {}
  /\ hist = [c \in Codes |-> FreshHist(0)]
  /\ probe = NoProbe
  /\ used = [left |-> {}, crowd |-> 0, resolves |-> 0, conns |-> 0]

DISCARD_DRAWN_ON ==
  \E ws \in Senders, code \in DOMAIN games :
    \E playerId \in RequestIds(code) :
      LET r == DiscardDrawn(ws, playerId, code)
      IN  /\ Apply(r)
          /\ hist' = [hist EXCEPT ![code] = Resolved(@, playerId)]
          /\ UNCHANGED <<open, used>>

NextDeck ==
  \/ Connect
  \/ CREATE_GAME
  \/ JOIN_GAME
  \/ START_GAME
  \/ DRAW_CARD
  \/ DISCARD_DRAWN_ON

SpecDeck == InitDeck /\ [][NextDeck]_vars

(***************************************************************************)
(* The late joiner: a player joins the started room with no cards, and the *)
(* cards are moved by switch, take-discard and replace.                    *)
(***************************************************************************)
InitLate ==
  /\ games = [c \in {} |-> 0]
  /\ clients = [c \in {} |-> 0]
  /\ open = {}
  /\ hist = [c \in Codes |-> FreshHist(0)]
  /\ probe = NoProbe
  /\ used = [left |-> {"join", "switch", "replace", "take", "retake"}, crowd |-> 0,
             resolves |-> 0, conns |-> 0]

NextLate ==
  \/ Connect
  \/ CREATE_GAME
  \/ JOIN_GAME
  \/ START_GAME
  \/ TAKE_DISCARD
  \/ REPLACE_CARD
  \/ SWITCH_CARDS

SpecLate == InitLate /\ [][NextLate]_vars

(***************************************************************************)
(* The connection that asks twice: a connection that is bound to a player   *)
(* sends CREATE_GAME or JOIN_GAME once more, and connections are closed.    *)
(***************************************************************************)
InitTwice ==
  /\ games = [c \in {} |-> 0]
  /\ clients = [c \in {} |-> 0]
  /\ open = {}
  /\ hist = [c \in Codes |-> FreshHist(0)]
  /\ probe = NoProbe
  /\ used = [left |-> {"rejoin", "close"}, crowd |-> 0, resolves |-> 0, conns |-> 0]

NextTwice ==
  \/ Connect
  \/ CREATE_GAME
  \/ JOIN_GAME
  \/ START_GAME
  \/ Close

SpecTwice == InitTwice /\ [][NextTwice]_vars

SpecLive ==
  InitTable /\ [][NextTable]_vars /\ WF_vars(DRAW_CARD) /\ WF_vars(DISCARD_DRAWN)

\* the same players at the turns of SpecTurn, where every hand stays a hand
\* of four cards
SpecLiveTurn ==
  InitTurn /\ [][NextTurn]_vars /\ WF_vars(DRAW_CARD) /\ WF_vars(DISCARD_DRAWN)

(***************************************************************************)
(* What the claims speak of.                                               *)
(***************************************************************************)
Rooms == DOMAIN games

Roster(code) == games[code].players

\* a handler answered ws with the one error `text`, sent nothing else and
\* changed nothing
RejectedWith(r, ws, text) ==
  /\ r.out[ws] = <<ErrorMsg(text)>>
  /\ \A c \in Conns \ {ws} : r.out[c] = <<>>
  /\ r.games = games
  /\ r.clients = clients

RECURSIVE HandSizes(_, _)
HandSizes(players, k) ==
  IF k = 0 THEN 0 ELSE HandSizes(players, k - 1) + Len(players[k].cards)

\* |deck| + |discardPile| + the sum of the hand sizes
CardsOnTable(game) ==
  Len(game.deck) + Len(game.discardPile) + HandSizes(game.players, Len(game.players))

HeldCards(game) == IF Truthy(game.drawnCard) THEN 1 ELSE 0

\* the session was started once and its roster has not changed since: only
\* draw, take-discard, replace, discard-held, call-cabo, switch and peek
\* were accepted after the start
PlainPlay(code) == hist[code].starts = 1 /\ ~hist[code].changed

\* C1 as stated: in a session started once and played with draw,
\* take-discard, replace, discard-held, call-cabo, switch and peek only,
\* |deck| + |discardPile| + the hand sizes is 52 after every action.
C1_SumWithoutHeld ==
  \A code \in Rooms : PlainPlay(code) => CardsOnTable(games[code]) = DeckSize

\* C1 amended: in such a session |deck| + |discardPile| + the hand sizes,
\* plus one while a drawn card is held, is 52 after every action.
C1_SumWithHeld ==
  \A code \in Rooms :
    PlainPlay(code) => CardsOnTable(games[code]) + HeldCards(games[code]) = DeckSize

\* a card is held after an earlier turn was resolved
C1_Witness ==
  \E code \in Rooms :
    /\ PlainPlay(code)
    /\ Truthy(games[code].drawnCard)
    /\ Len(games[code].discardPile) >= 2
    /\ CardsOnTable(games[code]) = DeckSize - 1

\* the session under `code` before and after a step is the same session
SameSession(code) ==
  code \in DOMAIN games /\ code \in DOMAIN games' /\ hist'[code].gen = hist[code].gen

StartAccepted(code) == hist'[code].starts = hist[code].starts + 1

ResolveAccepted(code) ==
  hist'[code].holder = NullId /\ hist[code].holder # NullId /\ ~StartAccepted(code)

\* C2 as stated: a card is held only between an accepted draw or
\* take-discard of the current player and that player's resolve; no card is
\* held right after a start and right after a resolve.
C2_HeldOnlyInsideTurn ==
  [][\A code \in Codes :
       SameSession(code) =>
         /\ Truthy(games'[code].drawnCard) =>
              /\ hist'[code].holder = games'[code].currentPlayerId
              /\ games'[code].state = "playing"
         /\ StartAccepted(code) => games'[code].drawnCard = Null
         /\ ResolveAccepted(code) => games'[code].drawnCard = Null]_vars

\* C3 as stated: the state of a session only moves lobby -> playing ->
\* finished; a playing session is not dealt afresh and a finished session
\* stays finished.
C3_StateOnlyForward ==
  [][\A code \in Codes :
       SameSession(code) =>
         /\ games[code].state = "playing" =>
              /\ games'[code].state \in {"playing", "finished"}
              /\ ~StartAccepted(code)
         /\ games[code].state = "finished" => games'[code].state = "finished"
         /\ games[code].state = "lobby" => games'[code].state \in {"lobby", "playing"}]_vars

\* C4: in a room, a draw or take-discard naming a player who is not the
\* current player is answered "Not your turn", and one naming the current
\* player while a card is held is answered "Already drew a card this turn";
\* both change nothing.
C4_AcquireRejected ==
  \A ws \in Requesters, code \in Rooms :
    \A playerId \in RequestIds(code) :
      /\ games[code].currentPlayerId # playerId =>
           /\ RejectedWith(DrawCard(ws, playerId, code), ws, "Not your turn")
           /\ RejectedWith(TakeDiscard(ws, playerId, code), ws, "Not your turn")
      /\ (games[code].currentPlayerId = playerId /\ games[code].drawnCard \in Cards) =>
           /\ RejectedWith(DrawCard(ws, playerId, code), ws, "Already drew a card this turn")
           /\ RejectedWith(TakeDiscard(ws, playerId, code), ws,
                           "Already drew a card this turn")

\* a card is held in a room where another player could ask, too
C4_Witness ==
  \E code \in Rooms :
    /\ games[code].state = "playing"
    /\ games[code].drawnCard \in Cards
    /\ hist[code].holder = games[code].currentPlayerId
    /\ \E playerId \in PlayerIds(code) : playerId # games[code].currentPlayerId

ScoresAreHandScores(game) ==
  \A k \in 1 .. Len(game.players) :
    game.players[k].score = calculateScore(game.players[k].cards)

\* C6 as stated: after an accepted call-cabo in a session of n players whose
\* roster stays as it is, the n-th accepted resolve, and no earlier one,
\* leaves the session finished with every score the score of the hand.
C6_FinishedAfterNResolves ==
  [][\A code \in Codes :
       (/\ SameSession(code)
        /\ hist'[code].caboN > 0
        /\ ~hist'[code].caboChanged
        /\ hist'[code].caboResolves = hist[code].caboResolves + 1) =>
         /\ hist'[code].caboResolves < hist'[code].caboN =>
              games'[code].state # "finished"
         /\ hist'[code].caboResolves = hist'[code].caboN =>
              /\ games'[code].state = "finished"
              /\ ScoresAreHandScores(games'[code])]_vars

\* C7 as stated: with n players and Cabo not called, after n accepted
\* resolves in a row since the start the current player is again the one
\* who was current at the start, and the n turns were taken by the players
\* in list order.
C7_RotationReturns ==
  \A code \in Rooms :
    (/\ games[code].state = "playing"
     /\ games[code].caboCallerId = NullId
     /\ hist[code].starts >= 1
     /\ ~hist[code].changed
     /\ Len(hist[code].turns) = Len(Roster(code))) =>
      /\ games[code].currentPlayerId = hist[code].turns[1]
      /\ \A k \in 1 .. Len(Roster(code)) : hist[code].turns[k] = Roster(code)[k].id

\* C8: a call-cabo naming a player who is not the current player is answered
\* "Not your turn" and one naming the current player when Cabo was called
\* before is answered "Cabo already called", both changing nothing; any
\* other call-cabo sets caboCallerId to the requester and turnsAfterCabo to
\* 0 and changes nothing else; caboCallerId stays the first caller from
\* then on.
C8_CaboCalledOnce ==
  \A code \in Rooms :
    /\ games[code].caboCallerId = hist[code].caboBy
    /\ \A ws \in Requesters, playerId \in RequestIds(code) :
         LET r == CallCabo(ws, playerId, code)
         IN  IF games[code].currentPlayerId # playerId
             THEN RejectedWith(r, ws, "Not your turn")
             ELSE IF games[code].caboCallerId # NullId
             THEN RejectedWith(r, ws, "Cabo already called")
             ELSE /\ r.clients = clients
                  /\ r.games = SetGame(games, code,
                                       [games[code] EXCEPT !.caboCallerId = playerId,
                                                           !.turnsAfterCabo = 0])

\* Cabo was called, turns were resolved after it, and the current player is
\* not the caller
C8_Witness ==
  \E code \in Rooms :
    /\ games[code].caboCallerId # NullId
    /\ hist[code].caboResolves >= 1
    /\ games[code].turnsAfterCabo >= 1
    /\ games[code].state = "playing"
    /\ games[code].currentPlayerId # games[code].caboCallerId

\* C9 as stated: a START_GAME for a room of fewer than 2 players is answered
\* "Need at least 2 players" and changes nothing; every accepted START_GAME
\* leaves the session playing with one card on the discard pile, four cards
\* in every hand, 52 - 1 - 4n cards in the deck, currentTurn 0, the first
\* player current and every score 0.
C9_StartPostcondition ==
  [][\A code \in Codes :
       (SameSession(code) /\ StartAccepted(code)) =>
         LET game == games'[code]
             n == Len(game.players)
         IN  /\ Len(games[code].players) >= MinPlayers
             /\ game.state = "playing"
             /\ Len(game.discardPile) = 1
             /\ \A k \in 1 .. n : Len(game.players[k].cards) = HandSize
             /\ Len(game.deck) = DeckSize - 1 - HandSize * n
             /\ game.currentTurn = 0
             /\ game.currentPlayerId = game.players[1].id
             /\ \A k \in 1 .. n : game.players[k].score = 0]_vars

\* names are only compared for equality: the names of the room, the first
\* name not in it, and two names that differ in the case of a letter
JoinNames(code) == PlayerNames(code) \cup {FreshName(code), "bob", "Bob"}

\* C10: a JOIN_GAME is answered "Game not found" for a code with no room,
\* "Game is full" for a room of 8 players, "Player name already taken" for a
\* name that a player of the room has, letter for letter, and these change
\* nothing; any other JOIN_GAME appends one player who is not host to the
\* end of the player list and changes nothing else of the room.
C10_JoinOutcomes ==
  \A ws \in Requesters, code \in Codes :
    \A name \in JoinNames(code) :
      LET playerId == FreshId(code)
          r == JoinGame(ws, playerId, name, code)
      IN  IF code \notin Rooms THEN RejectedWith(r, ws, "Game not found")
          ELSE IF Len(Roster(code)) >= MaxPlayers THEN RejectedWith(r, ws, "Game is full")
          ELSE IF name \in PlayerNames(code)
          THEN RejectedWith(r, ws, "Player name already taken")
          ELSE LET joined == r.games[code].players
                   n == Len(Roster(code))
               IN  /\ Len(joined) = n + 1
                   /\ SubSeq(joined, 1, n) = Roster(code)
                   /\ joined[n + 1].id = playerId
                   /\ joined[n + 1].name = name
                   /\ ~joined[n + 1].isHost
                   /\ r.games = SetGame(games, code, [games[code] EXCEPT !.players = joined])
                   /\ Len(joined) <= MaxPlayers

\* a room that joins filled to the last seat, holding two names that differ
\* only in the case of a letter
C10_Witness ==
  \E code \in Rooms :
    /\ Len(Roster(code)) = MaxPlayers
    /\ hist[code].changed
    /\ ~Roster(code)[MaxPlayers].isHost
    /\ {"bob", "Bob"} \subseteq PlayerNames(code)

Hosts(game) == {k \in 1 .. Len(game.players) : game.players[k].isHost}

\* the connections bound to a player id of a room
ConnsOf(code, playerId) ==
  {c \in open : Bound(c) /\ clients[c].gameCode = code /\ clients[c].playerId = playerId}

\* C11: every room has exactly one player with isHost, and the room's host
\* field is that player's id; when the host leaves or disconnects and
\* players remain, the first of them in list order is host afterwards.
C11_OneHost ==
  \A code \in Rooms :
    LET game == games[code]
        remaining == FilterPlayers(game.players, game.host)
    IN  /\ Cardinality(Hosts(game)) = 1
        /\ \A k \in Hosts(game) : game.players[k].id = game.host
        /\ \A ws \in ConnsOf(code, game.host) :
             remaining # <<>> =>
               /\ LeaveGame(ws).games[code].host = remaining[1].id
               /\ Hosts(LeaveGame(ws).games[code]) = {1}
               /\ CloseConn(ws).games[code].host = remaining[1].id
               /\ Hosts(CloseConn(ws).games[code]) = {1}

\* the first host has gone and the player who was second is host of a room
\* of two or more
C11_Witness ==
  \E code \in Rooms :
    /\ Len(Roster(code)) >= 2
    /\ Roster(code)[1].id # Ids[1]
    /\ Roster(code)[1].isHost
    /\ games[code].host = Roster(code)[1].id

\* C12 as stated: the code of a CREATE_GAME is the code of no room of the
\* registry, every room of the registry is there unchanged afterwards, and
\* the new room is in the lobby with the creator as its only player, host.
C12_FreshCode ==
  \A ws \in Requesters, code \in CodeChoices :
    LET r == CreateGame(ws, Ids[1], Names[1], code)
        created == r.games[code]
    IN  /\ code \notin Rooms
        /\ \A c \in Rooms : c \in DOMAIN r.games /\ r.games[c] = games[c]
        /\ created.state = "lobby"
        /\ Len(created.players) = 1
        /\ created.players[1].id = Ids[1]
        /\ created.players[1].isHost
        /\ created.host = Ids[1]

\* the session a request leaves under `code`, or none, is the session that
\* was there: same players but for those filtered out by `playerId`
SessionKept(r, code, playerId) ==
  /\ code \in DOMAIN r.games
  /\ [k \in 1 .. Len(r.games[code].players) |-> r.games[code].players[k].id]
       = [k \in 1 .. Len(FilterPlayers(Roster(code), playerId)) |->
            FilterPlayers(Roster(code), playerId)[k].id]

\* C13 as stated: no room of the registry has an empty player list; a leave
\* or disconnect removes the room of its connection exactly when no player
\* remains, and no other request removes a room that has players.
C13_RemovedWhenEmpty ==
  \A code \in Rooms :
    /\ Len(Roster(code)) > 0
    /\ \A ws \in {c \in open : Bound(c)} :
         LET playerId == clients[ws].playerId
             emptied == /\ clients[ws].gameCode = code
                        /\ FilterPlayers(Roster(code), playerId) = <<>>
         IN  /\ emptied => code \notin DOMAIN LeaveGame(ws).games
             /\ emptied => code \notin DOMAIN CloseConn(ws).games
             /\ ~emptied => SessionKept(LeaveGame(ws), code,
                                        IF clients[ws].gameCode = code
                                        THEN playerId ELSE Outsider)
             /\ ~emptied => SessionKept(CloseConn(ws), code,
                                        IF clients[ws].gameCode = code
                                        THEN playerId ELSE Outsider)
    /\ \A ws \in Requesters, created \in CodeChoices :
         SessionKept(CreateGame(ws, Outsider, Names[1], created), code, Outsider)

\* C14 as stated: while a room is playing, every player of its list has a
\* hand of exactly four slots.
C14_FourSlots ==
  \A code \in Rooms :
    games[code].state = "playing" =>
      \A k \in 1 .. Len(Roster(code)) : Len(Roster(code)[k].cards) = HandSize

\* C15 as stated: while a room is playing, currentTurn is an index of the
\* player list and currentPlayerId is the id of the player at that index.
C15_CurrentIsAtTurnIndex ==
  \A code \in Rooms :
    games[code].state = "playing" =>
      /\ games[code].currentTurn \in 0 .. (Len(Roster(code)) - 1)
      /\ games[code].currentPlayerId = Roster(code)[games[code].currentTurn + 1].id

\* the players a switch is tried between: the first and the last of the
\* list, either way round (one and the same player in a room of one)
SwitchParties(code) == {Roster(code)[1].id, Roster(code)[Len(Roster(code))].id}

\* the hands `after` are the hands `before` with slot pi of player k and
\* slot oi of player o exchanged, and nothing else of a player differs
HandsSwitched(before, after, k, o, pi, oi) ==
  /\ Len(after) = Len(before)
  /\ \A j \in (1 .. Len(before)) \ {k, o} : after[j] = before[j]
  /\ \A j \in {k, o} :
       /\ after[j] = [before[j] EXCEPT !.cards = after[j].cards]
       /\ \A slot \in Slots :
            ReadSlot(after[j].cards, slot) =
              IF j = k /\ slot = pi THEN ReadSlot(before[o].cards, oi)
              ELSE IF j = o /\ slot = oi THEN ReadSlot(before[k].cards, pi)
              ELSE ReadSlot(before[j].cards, slot)

SwitchFramed(r, code, k, o, pi, oi) ==
  /\ ~r.threw
  /\ r.clients = clients
  /\ r.games = SetGame(games, code, [games[code] EXCEPT !.players = r.games[code].players])
  /\ \A after \in {r.games[code].players} :
       HandsSwitched(Roster(code), after, k, o, pi, oi)

\* C16: a SWITCH_CARDS naming two players of the room is carried out whoever
\* is the current player; afterwards each of the two named slots holds what
\* the other held, every other slot of every hand holds what it held, and
\* nothing else of the room or the registry has changed.
C16_SwitchFrame ==
  \A ws \in Senders, code \in Rooms :
    \A playerId \in SwitchParties(code), opponentId \in SwitchParties(code),
       playerCardIndex \in SwitchSlots, opponentCardIndex \in SwitchSlots :
      \A r \in {SwitchCards(ws, playerId, opponentId, code,
                            playerCardIndex, opponentCardIndex)} :
        SwitchFramed(r, code, FindPlayer(Roster(code), playerId),
                     FindPlayer(Roster(code), opponentId),
                     playerCardIndex, opponentCardIndex)

\* a switch was carried out: since the only start no turn was resolved and
\* the roster is as it was, yet the hands are those of no deal
C16_Witness ==
  \E code \in Rooms :
    /\ PlainPlay(code)
    /\ games[code].state = "playing"
    /\ used.resolves = 0
    /\ \A seed \in Seeds :
         Roster(code) # StartedGame(games[code], seed).players

\* the request changed nothing and sent one message, of this type and with
\* this card and index, to its connection and nothing to any other
PeekAnswered(r, ws, type, card, cardIndex) ==
  /\ r.games = games
  /\ r.clients = clients
  /\ Len(r.out[ws]) = 1
  /\ r.out[ws][1].type = type
  /\ r.out[ws][1].card = card
  /\ r.out[ws][1].cardIndex = cardIndex
  /\ \A c \in Conns \ {ws} : r.out[c] = <<>>

\* C17: a PEEK_OWN_CARD or PEEK_OPPONENT_CARD naming a player of the room
\* changes nothing and sends one message, with the card at the named slot of
\* the named player, to the requesting connection and none to any other.
C17_PeekIsPrivate ==
  \A ws \in Requesters, code \in Rooms :
    \A playerId \in PlayerIds(code), cardIndex \in Slots :
      \A card \in {ReadSlot(Roster(code)[FindPlayer(Roster(code), playerId)].cards,
                            cardIndex)} :
        /\ PeekAnswered(PeekOwnCard(ws, playerId, code, cardIndex),
                        ws, "CARD_PEEKED", card, cardIndex)
        /\ PeekAnswered(PeekOpponentCard(ws, playerId, code, cardIndex),
                        ws, "OPPONENT_CARD_PEEKED", card, cardIndex)
        /\ PeekOpponentCard(ws, playerId, code, cardIndex).out[ws][1].opponentId = playerId

\* cards are dealt and several connections are bound to the room, so there
\* is a card to peek at and there are others who could be told
C17_Witness ==
  \E code \in Rooms :
    /\ games[code].state = "playing"
    /\ \E k \in 1 .. Len(Roster(code)) : Roster(code)[k].cards[1] \in Cards
    /\ Cardinality({c \in open : Bound(c) /\ clients[c].gameCode = code}) >= 2

\* the connections bound to a room
RoomConns(cl, code) == {c \in open : c \in DOMAIN cl /\ cl[c].gameCode = code}

\* a request that was carried out sent one message to every connection
\* bound to the room afterwards and none to any other
OneSnapshotEach(r, code) ==
  (Changes(r) /\ ~r.threw) =>
    \A c \in Conns : Len(r.out[c]) = IF c \in RoomConns(r.clients, code) THEN 1 ELSE 0

\* C18 as stated: when a player's own connection sends a start, draw,
\* take-discard, replace, discard-held, call-cabo or switch that is carried
\* out, or a new connection a join, every open connection bound to the
\* room, the requester's included, gets exactly one message and no other
\* connection gets any.
C18_OneSnapshotPerAction ==
  \A code \in Rooms :
    /\ \A ws \in RoomConns(clients, code), seed \in Seeds :
         LET playerId == clients[ws].playerId
         IN  /\ OneSnapshotEach(StartGame(ws, code, seed), code)
             /\ OneSnapshotEach(DrawCard(ws, playerId, code), code)
             /\ OneSnapshotEach(TakeDiscard(ws, playerId, code), code)
             /\ OneSnapshotEach(ReplaceCard(ws, playerId, code, 0), code)
             /\ OneSnapshotEach(DiscardDrawn(ws, playerId, code), code)
             /\ OneSnapshotEach(CallCabo(ws, playerId, code), code)
             /\ OneSnapshotEach(SwitchCards(ws, playerId, Roster(code)[1].id, code,
                                            0, HandSize - 1), code)
    /\ \A ws \in {c \in open : ~Bound(c)} :
         OneSnapshotEach(JoinGame(ws, FreshId(code), FreshName(code), code), code)

\* the request was answered with an ERROR or its handler threw
Failed(r, ws) ==
  \/ r.threw
  \/ Len(r.out[ws]) >= 1 /\ r.out[ws][1].type = "ERROR"

\* a request that failed changed nothing and told nobody but its sender
FailedCleanly(r, ws) ==
  Failed(r, ws) =>
    /\ r.games = games
    /\ r.clients = clients
    /\ \A c \in Conns \ {ws} : r.out[c] = <<>>

\* the ids a request may name: those of the players, a stranger's, and the
\* id the room has as current
NamedIds(code) == RequestIds(code) \cup ({games[code].currentPlayerId} \ {NullId})

\* C19 as stated: a request that is answered with ERROR or whose handler
\* throws changes no room and not the registry, sends nothing to another
\* connection, and leaves its connection bound as it was.
C19_FailureChangesNothing ==
  \A ws \in Requesters, code \in Rooms :
    \A playerId \in NamedIds(code), seed \in Seeds :
      /\ FailedCleanly(JoinGame(ws, playerId, Names[1], code), ws)
      /\ FailedCleanly(StartGame(ws, code, seed), ws)
      /\ FailedCleanly(DrawCard(ws, playerId, code), ws)
      /\ FailedCleanly(TakeDiscard(ws, playerId, code), ws)
      /\ FailedCleanly(ReplaceCard(ws, playerId, code, 0), ws)
      /\ FailedCleanly(DiscardDrawn(ws, playerId, code), ws)
      /\ FailedCleanly(CallCabo(ws, playerId, code), ws)
      /\ FailedCleanly(PeekOwnCard(ws, playerId, code, 0), ws)
      /\ FailedCleanly(PeekOpponentCard(ws, playerId, code, 0), ws)
      /\ FailedCleanly(SwitchCards(ws, playerId, Outsider, code, 0, 0), ws)

\* C20 as stated: on LEAVE_GAME the leaving connection gets GAME_LEFT and
\* nothing else, and every other open connection bound to the room, if
\* players remain, gets PLAYER_LEFT exactly once.
C20_PlayerLeftToTheRest ==
  \A ws \in {c \in open : Bound(c)} :
    LET r == LeaveGame(ws)
        code == clients[ws].gameCode
    IN  /\ Len(r.out[ws]) = 1
        /\ r.out[ws][1].type = "GAME_LEFT"
        /\ \A c \in RoomConns(clients, code) \ {ws} :
             code \in DOMAIN r.games =>
               /\ Len(r.out[c]) = 1
               /\ r.out[c][1].type = "PLAYER_LEFT"
               /\ r.out[c][1].game = r.games[code]

\* every draw and take-discard request on the room is turned down with one
\* of the two errors and changes nothing
AcquireShut(code) ==
  \A ws \in Requesters, playerId \in RequestIds(code) :
    \A r \in {DrawCard(ws, playerId, code), TakeDiscard(ws, playerId, code)} :
      \/ RejectedWith(r, ws, "Not your turn")
      \/ RejectedWith(r, ws, "Already drew a card this turn")

\* the step put a card into the held slot of the room
AcquireAccepted(code) ==
  /\ SameSession(code)
  /\ games[code].drawnCard \notin Cards
  /\ games'[code].drawnCard \in Cards

\* the room is played and no card is held
TurnOpen(code) == games[code].state = "playing" /\ ~Truthy(games[code].drawnCard)

\* the draw and take-discard requests a client may send for the room
AcquireRequests(ws, code) ==
  {DrawCard(ws, playerId, code) : playerId \in RequestIds(code)} \cup
  {TakeDiscard(ws, playerId, code) : playerId \in RequestIds(code)}

TableValue(card) ==
  LET rank == ValueOf(card) + 1
  IN  IF rank = NumValues
      THEN (IF SuitOf(card) \in {1, 2} THEN -1 ELSE 13)
      ELSE rank

RECURSIVE TableSum(_)
TableSum(cards) ==
  IF cards = <<>> THEN 0 ELSE TableValue(Head(cards)) + TableSum(Tail(cards))

Returned(fn) == probe.fn = fn /\ probe.done

\* C22: calculateScore of a hand is the sum of the table values of its
\* cards; A-spades, K-hearts, 5-clubs, Q-diamonds scores 17 and the four
\* kings score 24; getCardValue of a card is its table value, which is what
\* calculateScore gives the card alone.
C22_ScoreIsTableSum ==
  /\ Returned("calculateScore") =>
       /\ probe.ret = TableSum(probe.arg)
       /\ probe.arg = <<0, 25, 43, 37>> => probe.ret = 17
       /\ probe.arg = <<12, 25, 38, 51>> => probe.ret = 24
  /\ Returned("getCardValue") =>
       /\ probe.ret = TableValue(probe.arg)
       /\ probe.ret = calculateScore(<<probe.arg>>)

\* the hand A-spades, K-hearts, 5-clubs, Q-diamonds has been scored
C22_Witness ==
  /\ Returned("calculateScore")
  /\ probe.arg \in NamedHands
  /\ Len(probe.arg) = HandSize
  /\ CardValue(probe.arg[1]) = <<"A">>
  /\ probe.ret = 17

\* the 52 cards, each once
IsFullDeck(deck) ==
  /\ Len(deck) = 52
  /\ \A s \in 1 .. Len(suits), v \in 1 .. Len(values) :
       Cardinality({k \in 1 .. Len(deck) :
                      deck[k] \in Cards /\ CardSuit(deck[k]) = suits[s]
                                        /\ CardValue(deck[k]) = values[v]}) = 1

\* C23: whatever Math.random() returns, createDeck returns 52 cards in
\* which each pair of a suit and a value appears exactly once.
C23_DeckIsPermutation == Returned("createDeck") => IsFullDeck(probe.ret)

\* createDeck returned a deck that is not in the order it was filled in
C23_Witness ==
  /\ Returned("createDeck")
  /\ probe.ret # UnshuffledDeck
  /\ probe.arg \notin {Stream(seed) : seed \in Seeds}

\* C24 as stated: while a room is played, currentPlayerId changes only by
\* the accepted resolve of the player who was current and who acquired the
\* card held; no acquire is accepted while the card of an earlier acquire is
\* held, and no resolve without an acquire of the current player before it.
C24_OneAcquireOneResolve ==
  [][\A code \in Codes :
       (SameSession(code) /\ games[code].state = "playing"
                          /\ games'[code].state = "playing") =>
         /\ games'[code].currentPlayerId # games[code].currentPlayerId =>
              /\ ResolveAccepted(code)
              /\ hist[code].holder = games[code].currentPlayerId
              /\ games[code].drawnCard \in Cards
              /\ games'[code].drawnCard = Null
         /\ AcquireAccepted(code) =>
              /\ hist[code].holder = NullId
              /\ hist'[code].holder = games[code].currentPlayerId
         /\ ResolveAccepted(code) =>
              /\ hist[code].holder = games[code].currentPlayerId
              /\ games[code].drawnCard \in Cards]_vars

\* a request for room `code` sent from ws left every other room as it was
\* and sent nothing to the connections bound to another room, ws apart
KeepsOthers(r, ws, code) ==
  \A other \in Rooms \ {code} :
    /\ other \in DOMAIN r.games
    /\ r.games[other] = games[other]
    /\ \A c \in RoomConns(clients, other) \ {ws} : r.out[c] = <<>>

\* join, start, draw, take-discard, replace, discard-held, call-cabo, peek
\* and switch requests naming a room keep the other rooms
TurnRequestsApart ==
  \A ws \in open, code \in Rooms :
    /\ \A name \in NameChoices(code) :
         KeepsOthers(JoinGame(ws, FreshId(code), name, code), ws, code)
    /\ \A seed \in Seeds : KeepsOthers(StartGame(ws, code, seed), ws, code)
    /\ \A playerId \in RequestIds(code) :
         /\ KeepsOthers(DrawCard(ws, playerId, code), ws, code)
         /\ KeepsOthers(TakeDiscard(ws, playerId, code), ws, code)
         /\ KeepsOthers(DiscardDrawn(ws, playerId, code), ws, code)
         /\ KeepsOthers(CallCabo(ws, playerId, code), ws, code)
         /\ \A cardIndex \in SwitchSlots :
              /\ KeepsOthers(ReplaceCard(ws, playerId, code, cardIndex), ws, code)
              /\ KeepsOthers(PeekOwnCard(ws, playerId, code, cardIndex), ws, code)
              /\ KeepsOthers(PeekOpponentCard(ws, playerId, code, cardIndex), ws, code)
              /\ KeepsOthers(SwitchCards(ws, playerId, games[code].players[1].id, code,
                                         cardIndex, HandSize - 1 - cardIndex), ws, code)

\* C25 as stated: a join, start, draw, take-discard, replace, discard-held,
\* call-cabo, peek, switch or leave request naming room A leaves every other
\* room B as it was and sends nothing to the connections bound to B; the
\* creation of a room leaves every existing room as it was.
C25_RoomsApart ==
  /\ TurnRequestsApart
  /\ \A ws \in open, code \in Rooms : KeepsOthers(LeaveGame(ws), ws, code)
  /\ \A ws \in open, code \in CodeChoices :
       LET r == CreateGame(ws, Ids[1], Names[1], code)
       IN  \A other \in Rooms : other \in DOMAIN r.games /\ r.games[other] = games[other]

\* every session a handler sent is the session of the room as the handler
\* left it
SnapshotsAfter(r, code) ==
  \A c \in Conns :
    \A k \in 1 .. Len(r.out[c]) :
      "game" \in DOMAIN r.out[c][k] =>
        /\ code \in DOMAIN r.games
        /\ r.out[c][k].game = r.games[code]

\* a handler that was carried out sent the session to its requester
Reported(r, ws) ==
  (Changes(r) /\ ~r.threw) =>
    \E k \in 1 .. Len(r.out[ws]) : "game" \in DOMAIN r.out[ws][k]

\* C26: a handler runs from its checks to its last send as one step, and
\* the session it sends on being carried out is the session of the room as
\* this step leaves it, for create, join, start, draw, take-discard,
\* replace, discard-held, call-cabo, switch, leave and close; the requester
\* of a create, join, start or turn request is sent it.
C26_SnapshotIsStateAfter ==
  /\ \A ws \in Requesters, code \in CodeChoices :
       LET r == CreateGame(ws, Ids[1], Names[1], code)
       IN  SnapshotsAfter(r, code) /\ Reported(r, ws)
  /\ \A ws \in open :
       Bound(ws) =>
         /\ SnapshotsAfter(LeaveGame(ws), clients[ws].gameCode)
         /\ SnapshotsAfter(CloseConn(ws), clients[ws].gameCode)
  /\ \A ws \in Requesters, code \in Rooms :
       /\ \A name \in NameChoices(code) :
            LET r == JoinGame(ws, FreshId(code), name, code)
            IN  SnapshotsAfter(r, code) /\ Reported(r, ws)
       /\ \A seed \in Seeds :
            LET r == StartGame(ws, code, seed)
            IN  SnapshotsAfter(r, code) /\ Reported(r, ws)
       /\ \A playerId \in RequestIds(code) :
            /\ \A r \in {DrawCard(ws, playerId, code), TakeDiscard(ws, playerId, code),
                         DiscardDrawn(ws, playerId, code), CallCabo(ws, playerId, code)} :
                 SnapshotsAfter(r, code) /\ Reported(r, ws)
            /\ \A cardIndex \in SwitchSlots :
                 /\ LET r == ReplaceCard(ws, playerId, code, cardIndex)
                    IN  SnapshotsAfter(r, code) /\ Reported(r, ws)
                 /\ LET r == SwitchCards(ws, playerId, games[code].players[1].id, code,
                                         cardIndex, HandSize - 1 - cardIndex)
                    IN  SnapshotsAfter(r, code) /\ Reported(r, ws)

\* a replace was carried out in a room of two connections or more
C26_Witness ==
  \E code \in Rooms :
    /\ "replace" \notin used.left
    /\ "take" \in used.left
    /\ games[code].state = "playing"
    /\ games[code].discardPile # <<>>
    /\ Cardinality(RoomConns(clients, code)) >= 2
    /\ hist[code].turns # <<>>

\* a resolve that was carried out counted the turn after Cabo and then
\* either ended the round or passed the turn
ResolvedAsStated(r, code) ==
  (Changes(r) /\ ~r.threw) =>
    LET before == games[code]
        after == r.games[code]
        n == Len(before.players)
        counted == IF before.caboCallerId # NullId
                   THEN before.turnsAfterCabo + 1 ELSE before.turnsAfterCabo
    IN  /\ after.turnsAfterCabo = counted
        /\ IF before.caboCallerId # NullId /\ counted >= n
           THEN /\ after.state = "finished"
                /\ ScoresAreHandScores(after)
                /\ after.currentTurn = before.currentTurn
                /\ after.currentPlayerId = before.currentPlayerId
           ELSE /\ after.currentTurn = (before.currentTurn + 1) % n
                /\ after.currentPlayerId = after.players[after.currentTurn + 1].id

\* a request that is not a resolve left turnsAfterCabo as it was
CountKept(r, code) ==
  code \in DOMAIN r.games => r.games[code].turnsAfterCabo = games[code].turnsAfterCabo

\* C27 as stated: a replace or discard-held that is carried out adds 1 to
\* turnsAfterCabo when Cabo was called; when the count then reaches the
\* number of players the scores are computed, the room is finished and the
\* turn stays, otherwise the turn passes to the next index modulo the number
\* of players and currentPlayerId follows; call-cabo sets turnsAfterCabo to
\* 0 and no other request changes it.
C27_ResolveCountsAndTurns ==
  \A ws \in Senders, code \in Rooms :
    /\ \A name \in NameChoices(code) :
         CountKept(JoinGame(ws, FreshId(code), name, code), code)
    /\ \A seed \in Seeds : CountKept(StartGame(ws, code, seed), code)
    /\ \A c \in open : CountKept(LeaveGame(c), code) /\ CountKept(CloseConn(c), code)
    /\ \A playerId \in NamedIds(code) :
         /\ ResolvedAsStated(DiscardDrawn(ws, playerId, code), code)
         /\ CountKept(DrawCard(ws, playerId, code), code)
         /\ CountKept(TakeDiscard(ws, playerId, code), code)
         /\ LET r == CallCabo(ws, playerId, code)
            IN  Changes(r) => r.games[code].turnsAfterCabo = 0
         /\ \A cardIndex \in Slots :
              ResolvedAsStated(ReplaceCard(ws, playerId, code, cardIndex), code)
         /\ \A cardIndex \in SwitchSlots :
              /\ CountKept(PeekOwnCard(ws, playerId, code, cardIndex), code)
              /\ CountKept(PeekOpponentCard(ws, playerId, code, cardIndex), code)
              /\ CountKept(SwitchCards(ws, playerId, games[code].players[1].id, code,
                                       cardIndex, HandSize - 1 - cardIndex), code)

\* a request was carried out: it changed the state and did not throw
CarriedOut(r) == Changes(r) /\ ~r.threw

\* the hands of all players but the k-th (0: of all players) are the same
SameHandsBut(before, after, k) ==
  /\ Len(after.players) = Len(before.players)
  /\ \A j \in 1 .. Len(before.players) :
       j # k => after.players[j].cards = before.players[j].cards

\* the last element of a pile and the pile without it; an empty pile has
\* no last element and stays empty
Top(pile) == IF pile = <<>> THEN Undefined ELSE pile[Len(pile)]
Below(pile) == IF pile = <<>> THEN <<>> ELSE SubSeq(pile, 1, Len(pile) - 1)

\* C28: a replace that is carried out leaves the held card in the named
\* slot of the current player's hand, what was in that slot on top of the
\* discard pile, no card held, and every other slot, every other hand and
\* the deck as they were; a discard-held leaves the held card on top of the
\* discard pile, no card held, and hands and deck as they were; a draw moves
\* the last card of the deck, and a take-discard the last card of the
\* discard pile, into the held slot and leaves the other pile and the hands
\* as they were.
C28_CardsMoveAsStated ==
  \A ws \in Senders, code \in Rooms :
    \A playerId \in NamedIds(code) :
      LET before == games[code]
          k == FindPlayer(before.players, playerId)
      IN  /\ \A cardIndex \in 0 .. HandSize :
               LET r == ReplaceCard(ws, playerId, code, cardIndex)
                   after == r.games[code]
               IN  CarriedOut(r) =>
                     /\ playerId = before.currentPlayerId
                     /\ ReadSlot(after.players[k].cards, cardIndex) = before.drawnCard
                     /\ after.discardPile =
                          Append(before.discardPile,
                                 ReadSlot(before.players[k].cards, cardIndex))
                     /\ after.drawnCard = Null
                     /\ after.deck = before.deck
                     /\ SameHandsBut(before, after, k)
                     /\ \A i \in (0 .. HandSize) \ {cardIndex} :
                          ReadSlot(after.players[k].cards, i)
                            = ReadSlot(before.players[k].cards, i)
          /\ LET r == DiscardDrawn(ws, playerId, code)
                 after == r.games[code]
             IN  CarriedOut(r) =>
                   /\ after.discardPile = Append(before.discardPile, before.drawnCard)
                   /\ after.drawnCard = Null
                   /\ after.deck = before.deck
                   /\ SameHandsBut(before, after, 0)
          /\ LET r == DrawCard(ws, playerId, code)
                 after == r.games[code]
             IN  CarriedOut(r) =>
                   /\ after.drawnCard = Top(before.deck)
                   /\ after.deck = Below(before.deck)
                   /\ after.discardPile = before.discardPile
                   /\ SameHandsBut(before, after, 0)
          /\ LET r == TakeDiscard(ws, playerId, code)
                 after == r.games[code]
             IN  CarriedOut(r) =>
                   /\ after.drawnCard = Top(before.discardPile)
                   /\ after.discardPile = Below(before.discardPile)
                   /\ after.deck = before.deck
                   /\ SameHandsBut(before, after, 0)

\* a replace was carried out: with the discard pile as the start left it at
\* the bottom, a hand is not the hand that was dealt
C28_Witness ==
  \E code \in Rooms, seed \in Seeds :
    /\ "replace" \notin used.left
    /\ games[code].state = "playing"
    /\ Len(games[code].discardPile) >= 2
    /\ games[code].discardPile[1] = PopVal(ShuffledDecks[seed])
    /\ \E k \in 1 .. Len(Roster(code)) :
         Roster(code)[k].cards # StartedGame(games[code], seed).players[k].cards

\* the step called Cabo in the room
CaboAccepted(code) ==
  /\ SameSession(code)
  /\ games[code].caboCallerId = NullId
  /\ games'[code].caboCallerId # NullId

\* what the current player of the room has still to do: with no card held
\* a resolve is turned down and a draw and a take-discard are carried out,
\* with a card held a draw and a take-discard are turned down and a
\* discard-held is carried out and clears the held slot
TurnStillOwed(code) ==
  \A ws \in Senders :
    LET current == games[code].currentPlayerId
    IN  IF games[code].drawnCard \in Cards
        THEN /\ RejectedWith(DrawCard(ws, current, code), ws,
                             "Already drew a card this turn")
             /\ RejectedWith(TakeDiscard(ws, current, code), ws,
                             "Already drew a card this turn")
             /\ CarriedOut(DiscardDrawn(ws, current, code))
             /\ DiscardDrawn(ws, current, code).games[code].drawnCard = Null
        ELSE /\ RejectedWith(DiscardDrawn(ws, current, code), ws, "Invalid action")
             /\ \A cardIndex \in Slots :
                  RejectedWith(ReplaceCard(ws, current, code, cardIndex), ws,
                               "Invalid action")
             /\ CarriedOut(DrawCard(ws, current, code))
             /\ CarriedOut(TakeDiscard(ws, current, code))

\* C29: a call-cabo of the current player of a playing room where Cabo was
\* not called is carried out whether a card is held or not; the step of a
\* call-cabo changes caboCallerId and turnsAfterCabo and nothing else of the
\* room (held card, deck, discard pile, players and hands, turn index,
\* current player and state stay), and after it the caller is the current
\* player and still owes the acquire, if no card is held, and the resolve.
C29_CaboKeepsTheTurn ==
  [][\A code \in Rooms :
       /\ (games[code].state = "playing" /\ games[code].caboCallerId = NullId
             /\ games[code].currentPlayerId \in PlayerIds(code)) =>
            \A ws \in Senders :
              CarriedOut(CallCabo(ws, games[code].currentPlayerId, code))
       /\ CaboAccepted(code) =>
            /\ games'[code] =
                 [games[code] EXCEPT !.caboCallerId = games[code].currentPlayerId,
                                     !.turnsAfterCabo = 0]
            /\ clients' = clients
            /\ games[code].state = "playing" => TurnStillOwed(code)']_vars

\* Cabo was just called by the current player, who holds a card
C29_Witness ==
  \E code \in Rooms :
    /\ games[code].state = "playing"
    /\ games[code].caboCallerId = games[code].currentPlayerId
    /\ games[code].turnsAfterCabo = 0
    /\ hist[code].caboResolves = 0
    /\ games[code].drawnCard \in Cards
    /\ hist[code].holder = games[code].caboCallerId

\* the player bound to ws is out of the room of `after` and the other
\* players are in it, in the order they were in
Removed(before, after, playerId) ==
  /\ \A k \in 1 .. Len(after.players) : after.players[k].id # playerId
  /\ Len(after.players) =
       Cardinality({k \in 1 .. Len(before.players) : before.players[k].id # playerId})
  /\ \A k \in 1 .. Len(after.players) :
       \E j \in k .. Len(before.players) :
         /\ before.players[j].id = after.players[k].id
         /\ before.players[j].cards = after.players[k].cards

\* C30: the close of a connection leaves the registry and the connection
\* table as a LEAVE_GAME from that connection leaves them and sends the
\* other connections what the LEAVE_GAME sends them: the bound player is out
\* of the players, the first remaining player is the host if the host went,
\* the room is deleted if nobody remains and else its session is broadcast
\* as PLAYER_LEFT to the connections still bound to it, and the connection
\* is bound no more.
C30_CloseIsLeave ==
  \A ws \in open :
    LET closed == CloseConn(ws)
        left == LeaveGame(ws)
    IN  /\ closed.games = left.games
        /\ closed.clients = left.clients
        /\ \A c \in Conns \ {ws} : closed.out[c] = left.out[c]
        /\ closed.out[ws] = <<>>
        /\ ws \notin DOMAIN closed.clients
        /\ \A c \in (DOMAIN clients) \ {ws} :
             c \in DOMAIN closed.clients /\ closed.clients[c] = clients[c]
        /\ (Bound(ws) /\ ~NoGame(clients[ws].gameCode)) =>
             LET code == clients[ws].gameCode
                 playerId == clients[ws].playerId
             IN  IF PlayerIds(code) \subseteq {playerId}
                 THEN /\ code \notin DOMAIN closed.games
                      /\ \A c \in Conns : closed.out[c] = <<>>
                 ELSE /\ code \in DOMAIN closed.games
                      /\ Removed(games[code], closed.games[code], playerId)
                      /\ closed.games[code].host =
                           IF games[code].host = playerId
                           THEN closed.games[code].players[1].id
                           ELSE games[code].host
                      /\ games[code].host = playerId =>
                           closed.games[code].players[1].isHost
                      /\ \A c \in Conns \ {ws} :
                           closed.out[c] =
                             IF c \in RoomConns(clients, code)
                             THEN <<[type |-> "PLAYER_LEFT", game |-> closed.games[code]]>>
                             ELSE <<>>

\* a LEAVE_GAME was carried out and a bound connection closed, and the
\* creator of the room went by one of them: the room has another host
C30_Witness ==
  /\ used.left = {}
  /\ \E code \in Rooms :
       /\ hist[code].changed
       /\ games[code].host # Ids[1]
       /\ games[code].host \in PlayerIds(code)

\* the resolves a room in which Cabo was called may still need to be
\* finished, a late joiner counted, are within those the behaviour may take
ResolvesAtHand(code) ==
  used.resolves + Len(games[code].players) - games[code].turnsAfterCabo
    + (IF "join" \in used.left THEN 1 ELSE 0) <= MaxResolves

CaboPending(code) ==
  /\ code \in Rooms
  /\ games[code].state = "playing"
  /\ games[code].caboCallerId # NullId
  /\ ResolvesAtHand(code)

RoomFinished(code) == code \in Rooms /\ games[code].state = "finished"

RECURSIVE HandsOf(_, _)
HandsOf(players, k) ==
  IF k = 0 THEN <<>> ELSE HandsOf(players, k - 1) \o players[k].cards

\* the deck, the discard pile, the hands and the held card, laid end to end
Places(game) ==
  game.deck \o game.discardPile \o HandsOf(game.players, Len(game.players))
    \o (IF Truthy(game.drawnCard) THEN <<game.drawnCard>> ELSE <<>>)

EachCardOnce(game) ==
  LET places == Places(game)
  IN  /\ Len(places) = DeckSize
      /\ \A card \in Cards : \E i \in 1 .. Len(places) : places[i] = card

\* C32: in a session started once, with no join or leave after the start,
\* the deck, the discard pile, the hands and the held card together are the
\* 52 distinct cards, each in exactly one place, after every draw,
\* take-discard, replace, discard-held, call-cabo, peek and switch.
C32_EachCardInOnePlace ==
  \A code \in Rooms : PlainPlay(code) => EachCardOnce(games[code])

\* a switch, a take-discard and a replace were carried out, Cabo was called
\* and a card is held again
C32_Witness ==
  \E code \in Rooms :
    /\ PlainPlay(code)
    /\ games[code].caboCallerId # NullId
    /\ used.left = {}
    /\ Truthy(games[code].drawnCard)
    /\ EachCardOnce(games[code])

\* what the handler answered to ws with CARD_DRAWN names the card that the
\* room holds after it, and that is a card
HoldsReportedCard(r, ws, code) ==
  \A k \in 1 .. Len(r.out[ws]) :
    r.out[ws][k].type = "CARD_DRAWN" =>
      /\ r.games[code].drawnCard \in Cards
      /\ r.out[ws][k].drawnCard = r.games[code].drawnCard

\* C33 as stated: every draw or take-discard answered with CARD_DRAWN leaves
\* a card held and reports that card as drawnCard, also when the deck is
\* empty; so while a player's accepted acquire is not resolved, every further
\* acquire is rejected and that player's discard of the held card is
\* carried out.
C33_AcquireHoldsACard ==
  \A code \in Rooms :
    /\ \A ws \in Senders :
         \A r \in AcquireRequests(ws, code) : HoldsReportedCard(r, ws, code)
    /\ (games[code].state = "playing" /\ hist[code].holder # NullId) =>
         /\ AcquireShut(code)
         /\ \A ws \in Senders :
              Changes(DiscardDrawn(ws, games[code].currentPlayerId, code))

\* C34 as stated: in a playing session with no card held the discard pile is
\* not empty, and the discard pile is empty only while a card is held.
C34_PileNotEmpty ==
  \A code \in Rooms :
    games[code].state = "playing" =>
      /\ ~Truthy(games[code].drawnCard) => games[code].discardPile # <<>>
      /\ games[code].discardPile = <<>> => games[code].drawnCard \in Cards

\* the handler answered ws with one ERROR and changed nothing
RejectedByError(r, ws) ==
  /\ Len(r.out[ws]) = 1
  /\ r.out[ws][1].type = "ERROR"
  /\ r.games = games
  /\ r.clients = clients

\* C35 as stated: in a finished session every draw, take-discard, replace
\* and discard-held request, whichever player it names, is rejected and
\* leaves the deck, the discard pile, the hands, the held card,
\* turnsAfterCabo and the scores as they are.
C35_FinishedIsShut ==
  \A code \in Rooms :
    games[code].state = "finished" =>
      \A ws \in Senders, playerId \in NamedIds(code) :
        /\ RejectedByError(DrawCard(ws, playerId, code), ws)
        /\ RejectedByError(TakeDiscard(ws, playerId, code), ws)
        /\ RejectedByError(DiscardDrawn(ws, playerId, code), ws)
        /\ \A cardIndex \in Slots :
             RejectedByError(ReplaceCard(ws, playerId, code, cardIndex), ws)

\* the connection is bound to the player and the room that the request names
BoundTo(ws, playerId, code) ==
  /\ Bound(ws)
  /\ clients[ws].playerId = playerId
  /\ clients[ws].gameCode = code

\* C36 as stated: a draw, take-discard, replace, discard-held or call-cabo
\* that arrives on a connection bound to a player is carried out only when
\* that connection is bound to the player and the room it names: a
\* connection bound to P makes no move for another player Q.
C36_OnlyOwnConnectionMoves ==
  \A code \in Rooms, ws \in {c \in open : Bound(c)} :
    \A playerId \in NamedIds(code) :
      \/ BoundTo(ws, playerId, code)
      \/ /\ ~Changes(DrawCard(ws, playerId, code))
         /\ ~Changes(TakeDiscard(ws, playerId, code))
         /\ ~Changes(DiscardDrawn(ws, playerId, code))
         /\ ~Changes(CallCabo(ws, playerId, code))
         /\ \A cardIndex \in Slots :
              ~Changes(ReplaceCard(ws, playerId, code, cardIndex))

\* C37 as stated: every player of every room is the player of exactly one
\* open connection bound to that room.
C37_EveryPlayerBound ==
  \A code \in Rooms :
    \A k \in 1 .. Len(games[code].players) :
      Cardinality(ConnsOf(code, games[code].players[k].id)) = 1

\* the step took the top of the room's discard pile for the current player
\* of a playing room
TakeAccepted(code) ==
  /\ SameSession(code)
  /\ games[code].state = "playing"
  /\ games[code].drawnCard = Null
  /\ games[code].discardPile # <<>>
  /\ games'[code] = [games[code] EXCEPT !.discardPile = Below(@),
                                        !.drawnCard = Top(games[code].discardPile)]

\* the room after the current player's turn, but for the cards
TurnPassed(before) ==
  LET n == Len(before.players)
      next == (before.currentTurn + 1) % n
  IN  [before EXCEPT !.currentTurn = next,
                     !.currentPlayerId = before.players[next + 1].id,
                     !.turnsAfterCabo = IF before.caboCallerId # NullId THEN @ + 1 ELSE @]

\* the current player's discard of the held card is carried out and leaves
\* the room as it was in `before`, with the turn passed on
DiscardLeaves(code, before) ==
  \A ws \in Senders :
    LET r == DiscardDrawn(ws, games[code].currentPlayerId, code)
    IN  CarriedOut(r) /\ r.games[code] = TurnPassed(before)

\* the turn after which the round is over
LastTurn(game) ==
  game.caboCallerId # NullId /\ game.turnsAfterCabo + 1 >= Len(game.players)

\* the same, where the discard may end the round: then the room is finished,
\* the hands are scored, the count of turns after Cabo has grown and the
\* turn has stayed
DiscardRestores(code, before) ==
  \A ws \in Senders :
    LET r == DiscardDrawn(ws, games[code].currentPlayerId, code)
        after == r.games[code]
    IN  /\ CarriedOut(r)
        /\ after.deck = before.deck
        /\ after.discardPile = before.discardPile
        /\ SameHandsBut(before, after, 0)
        /\ after.drawnCard = Null
        /\ IF LastTurn(before)
           THEN after = [before EXCEPT !.state = "finished",
                                       !.turnsAfterCabo = @ + 1,
                                       !.players = ScoreAll(before.players)]
           ELSE after = TurnPassed(before)

\* C38 as stated: when the current player of a playing room takes the top of
\* the discard pile and then discards the held card, the deck, the discard
\* pile and the hands are as before the two requests, and nothing has
\* changed but the turn, which has passed to the next player, and
\* turnsAfterCabo, which has grown by 1 if Cabo was called.
C38_TakeThenDiscardPassesTurn ==
  [][\A code \in Codes :
       TakeAccepted(code) => \A before \in {games[code]} : DiscardLeaves(code, before)']_vars

\* C38 amended: after the take and the discard the deck, the discard pile
\* and the hands are as before; if the discard is not the last turn after
\* Cabo nothing else has changed but the turn and turnsAfterCabo, and if it
\* is, the room is finished, the hands are scored, turnsAfterCabo has grown
\* by 1 and the turn has not passed.
C38_TakeThenDiscard ==
  [][\A code \in Codes :
       TakeAccepted(code) => \A before \in {games[code]} : DiscardRestores(code, before)']_vars

\* Cabo was called and a player has taken the top of the discard pile; the
\* pile is left empty and the player has no replace to resolve with
C38_Witness ==
  \E code \in Rooms :
    /\ games[code].state = "playing"
    /\ games[code].caboCallerId # NullId
    /\ games[code].drawnCard \in Cards
    /\ games[code].discardPile = <<>>
    /\ used.left = {"replace"}
    /\ \A ws \in Senders :
         CarriedOut(DiscardDrawn(ws, games[code].currentPlayerId, code))

====
